---- MODULE Spec2Model ----
(***************************************************************************)
(* Multilateral netting and settlement of tulwegroup/nepar-fintech.        *)
(*                                                                         *)
(*   src/src/app/api/netting/route.ts    netting compute (POST)            *)
(*   src/src/app/api/treasury/route.ts   treasury approve / execute        *)
(*   src/unnamed/part_005                ledger-anchoring approve/execute  *)
(*                                                                         *)
(* Money is a JavaScript number in the source.  The model counts money in  *)
(* units of 0.005 currency units (half a pesewa) and computes exactly, so  *)
(* the source's 0.01 threshold is EPS = 2 units and a remainder below the  *)
(* threshold that is not zero exists.  Binary rounding of the float        *)
(* operations is not modelled.                                             *)
(***************************************************************************)
EXTENDS Integers, Sequences, FiniteSets, TLC

VARIABLES
    netIn,           \* pure netting runs: the argument of the function under test
    netOut,          \* pure netting runs: what the function returned
    invoices,        \* ledger: db.invoice rows
    payments,        \* ledger: db.payment rows
    batches,         \* ledger: db.settlementBatch rows
    users,           \* ledger: db.user rows (id -> role)
    blockchainState, \* part_005: module-level mock ledger
    calls,           \* trace of the calls made to the escrow / leg / approval helpers
    computed,        \* history: batchId -> what the netting POST returned when it created the batch
    response,        \* the HTTP response of the last request
    recIn,           \* pure reconciliation runs: the arguments of performReconciliation
    recOut,          \* pure reconciliation runs: what it returned, call by call
    deliveries,      \* ledger: db.delivery rows
    disputes,        \* ledger: db.dispute rows
    auditLog,        \* ledger: db.auditLog rows
    recRuns,         \* reconciliation requests: where each one stands and what it holds
    execRuns,        \* treasury execute requests: where each one stands and what it holds
    now              \* the clock of Date.now(), in units of 12 hours

vars == <<netIn, netOut, invoices, payments, batches, users, blockchainState,
          calls, computed, response, recIn, recOut, deliveries, disputes, auditLog,
          recRuns, execRuns, now>>

recVars == <<recIn, recOut, deliveries, disputes, auditLog, recRuns>>

\* no reconciliation run, no delivery, dispute or audit row
RecUnused ==
    /\ recIn = [kind |-> "none"]
    /\ recOut = <<>>
    /\ deliveries = <<>>
    /\ disputes = <<>>
    /\ auditLog = <<>>
    /\ recRuns = <<>>

execVars == <<execRuns, now>>

\* no execute request under way, the clock at its start
ExecUnused == execRuns = <<>> /\ now = 0

-----------------------------------------------------------------------------
(* Bounds                                                                  *)

MaxInvoices == 2      \* invoices handed to calculateNettingPositions
MaxAmount == 3        \* largest invoice totalAmount, in units
MaxPaid == 2          \* largest completed payment against an invoice, in units
MaxPositions == 3     \* length of a position list handed to generateSettlementLegs
MaxNet == 4           \* largest |netPosition| in such a list, in units

Parties == {"A", "B", "C"}

-----------------------------------------------------------------------------
(* Arithmetic helpers: Math.abs, Math.min, Math.max, Array.reduce          *)

Abs(x) == IF x < 0 THEN -x ELSE x

Min(a, b) == IF a < b THEN a ELSE b

Max(a, b) == IF a > b THEN a ELSE b

RECURSIVE SumSeq(_)
SumSeq(s) == IF s = <<>> THEN 0 ELSE Head(s) + SumSeq(Tail(s))

\* s.map(x => x[f]) for a sequence of records
Field(s, f) == [i \in DOMAIN s |-> s[i][f]]

-----------------------------------------------------------------------------
(* netting/route.ts: calculateNettingPositions                             *)

\* 0.01 currency units, in units of 0.005
EPS == 2

NewPosition(id) ==
    [partyId |-> id, totalReceivable |-> 0, totalPayable |-> 0, netPosition |-> 0]

\* positionMap.has(key) / positionMap.set(key, {...}): a Map keeps insertion order
HasParty(pos, key) == \E i \in DOMAIN pos : pos[i].partyId = key

EnsureParty(pos, key) == IF HasParty(pos, key) THEN pos ELSE Append(pos, NewPosition(key))

AddReceivable(pos, key, outstanding) ==
    [i \in DOMAIN pos |->
        IF pos[i].partyId = key
        THEN [pos[i] EXCEPT !.totalReceivable = @ + outstanding,
                            !.netPosition = @ + outstanding]
        ELSE pos[i]]

\* the counterparty's netPosition is left alone
AddPayableNoNet(pos, key, outstanding) ==
    [i \in DOMAIN pos |->
        IF pos[i].partyId = key
        THEN [pos[i] EXCEPT !.totalPayable = @ + outstanding]
        ELSE pos[i]]

AddPayable(pos, key, outstanding) ==
    [i \in DOMAIN pos |->
        IF pos[i].partyId = key
        THEN [pos[i] EXCEPT !.totalPayable = @ + outstanding,
                            !.netPosition = @ - outstanding]
        ELSE pos[i]]

\* an invoice paid in full or over-paid is not skipped
PositionStepNoSkip(pos, invoice) ==
    LET totalPaid == SumSeq(Field(invoice.payments, "amount"))
        outstanding == invoice.totalAmount - totalPaid
    IN  LET p1 == AddReceivable(EnsureParty(pos, invoice.issuer),
                                invoice.issuer, outstanding)
        IN  AddPayable(EnsureParty(p1, invoice.counterparty),
                       invoice.counterparty, outstanding)

\* one iteration of the for loop over the invoices
PositionStep(pos, invoice) ==
    LET totalPaid == SumSeq(Field(invoice.payments, "amount"))
        outstanding == invoice.totalAmount - totalPaid
    IN  IF outstanding <= 0 THEN pos
        ELSE LET p1 == AddReceivable(EnsureParty(pos, invoice.issuer),
                                     invoice.issuer, outstanding)
             IN  AddPayable(EnsureParty(p1, invoice.counterparty),
                            invoice.counterparty, outstanding)

RECURSIVE PositionFold(_, _)
PositionFold(pos, invs) ==
    IF invs = <<>> THEN pos
    ELSE PositionFold(PositionStep(pos, Head(invs)), Tail(invs))

\* Array.from(positionMap.values())
calculateNettingPositions(invs) == PositionFold(<<>>, invs)

-----------------------------------------------------------------------------
(* netting/route.ts: generateSettlementLegs                                *)
(* filter() copies the array but not the objects in it, so debtors and     *)
(* creditors hold references into positions: they are sequences of indexes *)
(* into the position list, and the loop's updates land in that list.       *)

Indexes(pos) == [i \in 1..Len(pos) |-> i]

\* Array.prototype.sort is stable: insert after every element whose key is not larger
InsertByKey(sorted, i, key) ==
    LET n == Cardinality({k \in DOMAIN sorted : key[sorted[k]] <= key[i]})
    IN  SubSeq(sorted, 1, n) \o <<i>> \o SubSeq(sorted, n + 1, Len(sorted))

RECURSIVE SortByKey(_, _)
SortByKey(idx, key) ==
    IF idx = <<>> THEN <<>>
    ELSE InsertByKey(SortByKey(SubSeq(idx, 1, Len(idx) - 1), key), idx[Len(idx)], key)

\* positions.filter(p => p.netPosition < 0).sort((a, b) => a.netPosition - b.netPosition)
Debtors(pos) ==
    SortByKey(SelectSeq(Indexes(pos), LAMBDA i : pos[i].netPosition < 0),
              [i \in DOMAIN pos |-> pos[i].netPosition])

\* positions.filter(p => p.netPosition > 0).sort((a, b) => b.netPosition - a.netPosition)
Creditors(pos) ==
    SortByKey(SelectSeq(Indexes(pos), LAMBDA i : pos[i].netPosition > 0),
              [i \in DOMAIN pos |-> 0 - pos[i].netPosition])

\* the loop's variables; debtorIndex and creditorIndex count from 1 here
LegStart(pos) == [positions |-> pos, legs |-> <<>>, debtorIndex |-> 1, creditorIndex |-> 1]

LegCond(st, debtors, creditors) ==
    st.debtorIndex <= Len(debtors) /\ st.creditorIndex <= Len(creditors)

\* both pointers move on after every leg, whatever is left of the two positions
LegBodyAlwaysAdvance(st, debtors, creditors) ==
    LET d == debtors[st.debtorIndex]
        c == creditors[st.creditorIndex]
        settlementAmount == Min(Abs(st.positions[d].netPosition), st.positions[c].netPosition)
    IN  IF settlementAmount > 0
        THEN [positions |-> [st.positions EXCEPT ![d].netPosition = @ + settlementAmount,
                                                 ![c].netPosition = @ - settlementAmount],
              legs |-> Append(st.legs, [payerId |-> st.positions[d].partyId,
                                        payeeId |-> st.positions[c].partyId,
                                        amount |-> settlementAmount,
                                        currency |-> "GHS"]),
              debtorIndex |-> st.debtorIndex + 1,
              creditorIndex |-> st.creditorIndex + 1]
        ELSE st

\* every leg carries one unit only, so a pair may take several legs
LegBodyUnitLegs(st, debtors, creditors) ==
    LET d == debtors[st.debtorIndex]
        c == creditors[st.creditorIndex]
        settlementAmount == Min(1, Min(Abs(st.positions[d].netPosition),
                                       st.positions[c].netPosition))
    IN  IF settlementAmount > 0
        THEN LET pos1 == [st.positions EXCEPT ![d].netPosition = @ + settlementAmount,
                                              ![c].netPosition = @ - settlementAmount]
             IN  [positions |-> pos1,
                  legs |-> Append(st.legs, [payerId |-> st.positions[d].partyId,
                                            payeeId |-> st.positions[c].partyId,
                                            amount |-> settlementAmount,
                                            currency |-> "GHS"]),
                  debtorIndex |-> IF Abs(pos1[d].netPosition) < EPS
                                  THEN st.debtorIndex + 1 ELSE st.debtorIndex,
                  creditorIndex |-> IF pos1[c].netPosition < EPS
                                    THEN st.creditorIndex + 1 ELSE st.creditorIndex]
        ELSE st

\* the leg names the creditor as payer and the debtor as payee
LegBodySwapped(st, debtors, creditors) ==
    LET d == debtors[st.debtorIndex]
        c == creditors[st.creditorIndex]
        settlementAmount == Min(Abs(st.positions[d].netPosition), st.positions[c].netPosition)
    IN  IF settlementAmount > 0
        THEN LET pos1 == [st.positions EXCEPT ![d].netPosition = @ + settlementAmount,
                                              ![c].netPosition = @ - settlementAmount]
             IN  [positions |-> pos1,
                  legs |-> Append(st.legs, [payerId |-> st.positions[c].partyId,
                                            payeeId |-> st.positions[d].partyId,
                                            amount |-> settlementAmount,
                                            currency |-> "GHS"]),
                  debtorIndex |-> IF Abs(pos1[d].netPosition) < EPS
                                  THEN st.debtorIndex + 1 ELSE st.debtorIndex,
                  creditorIndex |-> IF pos1[c].netPosition < EPS
                                    THEN st.creditorIndex + 1 ELSE st.creditorIndex]
        ELSE st

\* the debtor pointer stays where it is
LegBodyDebtorStays(st, debtors, creditors) ==
    LET d == debtors[st.debtorIndex]
        c == creditors[st.creditorIndex]
        settlementAmount == Min(Abs(st.positions[d].netPosition), st.positions[c].netPosition)
    IN  IF settlementAmount > 0
        THEN LET pos1 == [st.positions EXCEPT ![d].netPosition = @ + settlementAmount,
                                              ![c].netPosition = @ - settlementAmount]
             IN  [positions |-> pos1,
                  legs |-> Append(st.legs, [payerId |-> st.positions[d].partyId,
                                            payeeId |-> st.positions[c].partyId,
                                            amount |-> settlementAmount,
                                            currency |-> "GHS"]),
                  debtorIndex |-> st.debtorIndex,
                  creditorIndex |-> IF pos1[c].netPosition < EPS
                                    THEN st.creditorIndex + 1 ELSE st.creditorIndex]
        ELSE st

\* one iteration of the while loop
LegBody(st, debtors, creditors) ==
    LET d == debtors[st.debtorIndex]
        c == creditors[st.creditorIndex]
        debtorOwes == Abs(st.positions[d].netPosition)
        creditorIsOwed == st.positions[c].netPosition
        settlementAmount == Min(debtorOwes, creditorIsOwed)
    IN  IF settlementAmount > 0
        THEN LET pos1 == [st.positions EXCEPT ![d].netPosition = @ + settlementAmount,
                                              ![c].netPosition = @ - settlementAmount]
             IN  [positions |-> pos1,
                  legs |-> Append(st.legs, [payerId |-> st.positions[d].partyId,
                                            payeeId |-> st.positions[c].partyId,
                                            amount |-> settlementAmount,
                                            currency |-> "GHS"]),
                  debtorIndex |-> IF Abs(pos1[d].netPosition) < EPS
                                  THEN st.debtorIndex + 1 ELSE st.debtorIndex,
                  creditorIndex |-> IF pos1[c].netPosition < EPS
                                    THEN st.creditorIndex + 1 ELSE st.creditorIndex]
        ELSE st

\* the while loop; an iteration that changes nothing would repeat for ever in
\* the source, and the recursion stops on it
RECURSIVE LegLoop(_, _, _)
LegLoop(st, debtors, creditors) ==
    IF ~LegCond(st, debtors, creditors) THEN st
    ELSE LET next == LegBody(st, debtors, creditors)
         IN  IF next = st THEN st ELSE LegLoop(next, debtors, creditors)

\* returns the legs together with the position list as the loop left it
generateSettlementLegs(pos) == LegLoop(LegStart(pos), Debtors(pos), Creditors(pos))

-----------------------------------------------------------------------------
(* netting/route.ts: calculateSummary                                      *)
(* efficiencyGain is a float percentage in the source; the model keeps its *)
(* integer part.                                                           *)

calculateSummary(pos, legs) ==
    LET totalReceivable == SumSeq(Field(pos, "totalReceivable"))
        totalPayable == SumSeq(Field(pos, "totalPayable"))
        totalGrossAmount == Max(totalReceivable, totalPayable)
        totalNetAmount == SumSeq(Field(legs, "amount"))
        grossLegs == Len(SelectSeq(pos, LAMBDA p : p.totalPayable > 0))
                     + Len(SelectSeq(pos, LAMBDA p : p.totalReceivable > 0))
    IN  [totalGrossAmount |-> totalGrossAmount,
         totalNetAmount |-> totalNetAmount,
         cashLegsReduction |-> totalGrossAmount - totalNetAmount,
         efficiencyGain |-> IF totalGrossAmount > 0
                            THEN ((totalGrossAmount - totalNetAmount) * 100) \div totalGrossAmount
                            ELSE 0,
         numberOfLegs |-> [gross |-> grossLegs,
                           net |-> Len(legs),
                           reduction |-> grossLegs - Len(legs)]]

\* POST, lines 61-76: positions, legs and summary as they go into the result;
\* calculated is the list as calculateNettingPositions returned it
NettingResult(invs) ==
    LET calculated == calculateNettingPositions(invs)
        gen == generateSettlementLegs(calculated)
    IN  [calculated |-> calculated,
         positions |-> gen.positions,
         settlementLegs |-> gen.legs,
         summary |-> calculateSummary(gen.positions, gen.legs)]

-----------------------------------------------------------------------------
(* Pure netting runs: the input is drawn in Init, one action applies the   *)
(* function.  The ledger variables are not used.                           *)

\* no run yet / no request yet
NetIdle == [done |-> FALSE]

NoResponse == [op |-> "none"]

\* invoice rows as the POST's findMany hands them over: payments holds the
\* COMPLETED payments of the invoice
InvoiceInputs ==
    { [issuer |-> i, counterparty |-> c, totalAmount |-> t, payments |-> ps] :
        i \in Parties, c \in Parties, t \in 1..MaxAmount,
        ps \in {<<>>} \cup { <<[amount |-> a]>> : a \in 1..MaxPaid } }

SeqsUpTo(S, n) == UNION { [1..k -> S] : k \in 0..n }

InvoiceLists == { l \in SeqsUpTo({x \in InvoiceInputs : x.issuer # x.counterparty}, MaxInvoices) : TRUE }

PositionOf(id, net) ==
    [partyId |-> id, totalReceivable |-> Max(net, 0), totalPayable |-> Max(0 - net, 0),
     netPosition |-> net]

\* party ids a position list may carry
PositionParties == Parties \cup {"D"}

\* position lists with one entry per party and net positions that sum to zero
PositionLists ==
    UNION { { [i \in 1..k |-> PositionOf(ids[i], nets[i])] :
                ids \in { f \in [1..k -> PositionParties] :
                            \A i, j \in 1..k : i # j => f[i] # f[j] },
                nets \in { g \in [1..k -> (0 - MaxNet)..MaxNet] : SumSeq(g) = 0 } } :
            k \in 0..MaxPositions }

\* position lists whose net positions do not sum to zero; the parties appear
\* in one fixed order, since generateSettlementLegs orders by netPosition only
PartyOrder == <<"A", "B", "C", "D">>

UnbalancedLists ==
    UNION { { [i \in 1..k |-> PositionOf(PartyOrder[i], nets[i])] :
                nets \in { g \in [1..k -> (0 - MaxNet)..MaxNet] : SumSeq(g) # 0 } } :
            k \in 1..MaxPositions }

LedgerIdle ==
    /\ invoices = <<>>
    /\ payments = <<>>
    /\ batches = <<>>
    /\ users = <<>>
    /\ blockchainState = [transactions |-> <<>>, currentBlock |-> 0]
    /\ calls = <<>>
    /\ computed = <<>>
    /\ response = NoResponse
    /\ RecUnused
    /\ ExecUnused

InitNetting ==
    /\ \/ \E l \in InvoiceLists : netIn = [kind |-> "invoices", invoices |-> l]
       \/ \E l \in PositionLists \cup UnbalancedLists :
             netIn = [kind |-> "positions", positions |-> l]
    /\ netOut = NetIdle
    /\ LedgerIdle

\* calculateNettingPositions, generateSettlementLegs and calculateSummary on a drawn invoice list
RunNetting ==
    /\ netIn.kind = "invoices"
    /\ netOut = NetIdle
    /\ netOut' = [done |-> TRUE, result |-> NettingResult(netIn.invoices)]
    /\ UNCHANGED <<execVars, recVars, netIn, invoices, payments, batches, users, blockchainState,
                   calls, computed, response>>

\* generateSettlementLegs on a drawn position list
RunLegs ==
    /\ netIn.kind = "positions"
    /\ netOut = NetIdle
    /\ netOut' = [done |-> TRUE,
                  result |-> [calculated |-> netIn.positions,
                              positions |-> generateSettlementLegs(netIn.positions).positions,
                              settlementLegs |-> generateSettlementLegs(netIn.positions).legs]]
    /\ UNCHANGED <<execVars, recVars, netIn, invoices, payments, batches, users, blockchainState,
                   calls, computed, response>>

NextNetting == RunNetting \/ RunLegs

SpecNetting == InitNetting /\ [][NextNetting]_vars

-----------------------------------------------------------------------------
(* Netting properties                                                      *)

NetDone == netOut.done

SumNet(pos) == SumSeq(Field(pos, "netPosition"))

SumPositive(pos) == SumSeq([i \in DOMAIN pos |-> Max(pos[i].netPosition, 0)])

SumNegative(pos) == SumSeq([i \in DOMAIN pos |-> Max(0 - pos[i].netPosition, 0)])

SumLegs(legs) == SumSeq(Field(legs, "amount"))

NumDebtors(pos) == Len(Debtors(pos))

NumCreditors(pos) == Len(Creditors(pos))

\* C1: the net positions that calculateNettingPositions returns for a list of
\* invoices with their completed payments sum to zero over all parties.
C1_Conservation ==
    (NetDone /\ netIn.kind = "invoices") => SumNet(netOut.result.calculated) = 0

\* C1 witness: three parties hold a position, one of them both issued and
\* received an invoice with an outstanding amount, and a completed payment
\* was subtracted from an invoice that stays outstanding.
C1_Witness ==
    /\ NetDone /\ netIn.kind = "invoices"
    /\ Len(netOut.result.calculated) = 3
    /\ \E i \in DOMAIN netOut.result.calculated :
          /\ netOut.result.calculated[i].totalReceivable > 0
          /\ netOut.result.calculated[i].totalPayable > 0
          /\ netOut.result.calculated[i].netPosition # 0
    /\ \E k \in DOMAIN netIn.invoices :
          /\ netIn.invoices[k].payments # <<>>
          /\ netIn.invoices[k].totalAmount > SumSeq(Field(netIn.invoices[k].payments, "amount"))

-----------------------------------------------------------------------------
(* The ledger and the settlement requests                                  *)

MaxLedger == 1        \* invoices in the ledger
MaxBatches == 2       \* settlement batches created in a run
MaxBlock == 2         \* confirmed transactions of the mock ledger in a run
MaxApprovals == 3     \* recordApproval calls in a run
MaxImports == 1       \* payments imported in a run

Periods == {"2024-01", "2024-02"}

\* undefined / null in a row; row ids count from 1
Undefined == 0

UserIds == {"u1", "u2", "u3", "u4"}

\* db.user rows: three users with approval authority, one without
UserRows == [u1 |-> "TREASURY", u2 |-> "MINISTER", u3 |-> "TREASURY", u4 |-> "AGENCY_CFO"]

BatchIds == 1..MaxBatches

\* invoice rows of the ledger; the invoice id is the row's place in the table
LedgerInvoices ==
    { [issuer |-> x[1], counterparty |-> x[2], totalAmount |-> t, status |-> st,
       period |-> "2024-01"] :
        x \in {<<"A", "B">>, <<"B", "C">>},
        t \in {MaxAmount},
        st \in {"MATCHED", "PENDING"} }

Ledgers == SeqsUpTo(LedgerInvoices, MaxLedger)

netVars == <<netIn, netOut>>

NetUnused == netIn = [kind |-> "none"] /\ netOut = NetIdle

NoCalls ==
    [recordApproval |-> [k \in BatchIds \X UserIds |-> 0],
     reserveFunds |-> <<>>,
     executeSettlementLeg |-> <<>>,
     releaseFunds |-> <<>>,
     rollbackSettlement |-> <<>>]

Init ==
    /\ NetUnused
    /\ invoices \in Ledgers
    /\ payments = <<>>
    /\ batches = <<>>
    /\ users = UserRows
    /\ blockchainState = [transactions |-> <<>>, currentBlock |-> 0]
    /\ calls = NoCalls
    /\ computed = <<>>
    /\ response = NoResponse
    /\ RecUnused
    /\ ExecUnused

\* db.settlementBatch.findUnique({ where: { batchId } }): the row's index, 0 for null
FindBatch(batchId) ==
    IF \E i \in DOMAIN batches : batches[i].batchId = batchId
    THEN CHOOSE i \in DOMAIN batches : batches[i].batchId = batchId
    ELSE 0

\* db.settlementBatch.updateMany({ where: { batchId }, data })
UpdateStatus(batchId, status) ==
    [i \in DOMAIN batches |->
        IF batches[i].batchId = batchId THEN [batches[i] EXCEPT !.status = status]
        ELSE batches[i]]

-----------------------------------------------------------------------------
(* netting/route.ts: POST and createSettlementBatch                        *)

\* include: { payments: { where: { status: 'COMPLETED' } } }
CompletedPayments(invoiceId) ==
    SelectSeq(payments, LAMBDA p : p.invoiceId = invoiceId /\ p.status = "COMPLETED")

\* db.invoice.findMany of the POST: invoices of the period that are MATCHED, PAID or PARTIALLY_PAID
PeriodInvoices(period) ==
    LET ids == SelectSeq(Indexes(invoices),
                         LAMBDA i : /\ invoices[i].period = period
                                    /\ invoices[i].status \in {"MATCHED", "PAID", "PARTIALLY_PAID"})
    IN  [k \in DOMAIN ids |->
            [issuer |-> invoices[ids[k]].issuer,
             counterparty |-> invoices[ids[k]].counterparty,
             totalAmount |-> invoices[ids[k]].totalAmount,
             payments |-> CompletedPayments(ids[k])]]

\* the row carries the summary's cashLegsReduction as its totalNetAmount
createSettlementBatchReduction(batchId, result) ==
    [batchId |-> batchId,
     period |-> result.period,
     fxRate |-> result.fxRate,
     totalNetAmount |-> result.summary.cashLegsReduction,
     status |-> "COMPUTED",
     executedAt |-> FALSE,
     smartContractTxId |-> 0]

\* the row createSettlementBatch writes; batchId stands for `SB-${period}-${Date.now()}`
createSettlementBatch(batchId, result) ==
    [batchId |-> batchId,
     period |-> result.period,
     fxRate |-> result.fxRate,
     totalNetAmount |-> result.summary.totalNetAmount,
     status |-> "COMPUTED",
     executedAt |-> FALSE,
     smartContractTxId |-> 0]

NettingPOST(period) ==
    /\ Len(batches) < MaxBatches
    /\ LET r == NettingResult(PeriodInvoices(period))
           result == [period |-> period, fxRate |-> 1, positions |-> r.positions,
                      settlementLegs |-> r.settlementLegs, summary |-> r.summary]
           batchId == Len(batches) + 1
       IN  /\ batches' = Append(batches, createSettlementBatch(batchId, result))
           /\ computed' = Append(computed, [batchId |-> batchId,
                                            calculated |-> r.calculated,
                                            settlementLegs |-> r.settlementLegs,
                                            totalNetAmount |-> r.summary.totalNetAmount])
           /\ response' = [op |-> "netting", status |-> 200, result |-> result]
    /\ UNCHANGED <<execVars, netVars, recVars, invoices, payments, users, blockchainState, calls>>

-----------------------------------------------------------------------------
(* import/route.ts: importPayments, for a request that carries one payment *)

importPayments(invoiceId, amount) ==
    /\ Len(SelectSeq(payments, LAMBDA p : p.invoiceId # Undefined)) < MaxImports
    /\ payments' = Append(payments, [invoiceId |-> invoiceId,
                                     payerId |-> invoices[invoiceId].counterparty,
                                     payeeId |-> invoices[invoiceId].issuer,
                                     amount |-> amount,
                                     currency |-> "GHS",
                                     status |-> "COMPLETED",
                                     settlementBatchId |-> Undefined])
    /\ response' = [op |-> "import", status |-> 200]
    /\ UNCHANGED <<execVars, netVars, recVars, invoices, batches, users, blockchainState, calls, computed>>

-----------------------------------------------------------------------------
(* treasury/route.ts: helpers, lines 453-468, 487-490 and 534-541.  Their  *)
(* bodies are placeholders in the source and are modelled as they stand;   *)
(* calls records that a helper with an empty body was called.              *)

\* the fixed list of the source; its amounts are kept as written (currency
\* units, as text) because nothing reads them: the caller passes the list on to
\* treasuryGenerateSettlementLegs, which ignores its argument
calculateNetPositions(period) ==
    << [partyId |-> "1", partyName |-> "ECG", netPosition |-> "-2345678900", type |-> "PAYABLE"],
       [partyId |-> "2", partyName |-> "VRA", netPosition |-> "1234567890", type |-> "RECEIVABLE"],
       [partyId |-> "3", partyName |-> "IPP Alpha", netPosition |-> "567890123", type |-> "RECEIVABLE"] >>

treasuryGenerateSettlementLegs(netPositions) == <<>>

getApprovals(batchId) == <<>>

checkExistingApproval(batchId, userId) == FALSE

reserveFunds(data) == [success |-> TRUE]

executeSettlementLeg(leg, batchId) == [success |-> TRUE]

totalRequiredApprovers == 3

Reference(batchId) == <<"SETTLEMENT", batchId>>

RECURSIVE SumOver(_, _)
SumOver(f, S) ==
    IF S = {} THEN 0
    ELSE LET x == CHOOSE y \in S : TRUE IN f[x] + SumOver(f, S \ {x})

\* recordApproval calls made so far, in all and for one batch
RecordedTotal == SumOver(calls.recordApproval, DOMAIN calls.recordApproval)

Recorded(batchId) == SumOver(calls.recordApproval, {batchId} \X UserIds)

-----------------------------------------------------------------------------
(* treasury/route.ts: approveSettlement                                    *)

approveSettlement(batchId, userId) ==
    LET user == IF userId \in DOMAIN users THEN users[userId] ELSE "null"
    IN  IF user = "null" \/ (user # "TREASURY" /\ user # "MINISTER")
        THEN /\ response' = [op |-> "approve", status |-> 403, error |-> "Insufficient authority"]
             /\ UNCHANGED <<execVars, netVars, recVars, invoices, payments, batches, users, blockchainState,
                            calls, computed>>
        ELSE IF checkExistingApproval(batchId, userId)
        THEN /\ response' = [op |-> "approve", status |-> 400, error |-> "Already approved"]
             /\ UNCHANGED <<execVars, netVars, recVars, invoices, payments, batches, users, blockchainState,
                            calls, computed>>
        ELSE LET approvals == getApprovals(batchId)
                 quorumReached == Len(approvals) >= totalRequiredApprovers
             IN  /\ RecordedTotal < MaxApprovals
                 /\ calls' = [calls EXCEPT !.recordApproval[<<batchId, userId>>] = @ + 1]
                 /\ batches' = IF quorumReached THEN UpdateStatus(batchId, "APPROVED")
                               ELSE batches
                 /\ response' = [op |-> "approve", status |-> 200,
                                 success |-> TRUE, approved |-> TRUE,
                                 quorumReached |-> quorumReached,
                                 approvalsCount |-> Len(approvals),
                                 requiredApprovals |-> totalRequiredApprovers]
                 /\ UNCHANGED <<execVars, netVars, recVars, invoices, payments, users, blockchainState, computed>>

-----------------------------------------------------------------------------
(* treasury/route.ts: executeSettlement                                    *)

executeSettlement(batchId) ==
    LET b == FindBatch(batchId)
    IN  IF b = 0 \/ batches[b].status # "APPROVED"
        THEN /\ response' = [op |-> "execute", status |-> 400, batchId |-> batchId,
                             error |-> "Settlement not approved"]
             /\ UNCHANGED <<execVars, netVars, recVars, invoices, payments, batches, users, blockchainState,
                            calls, computed>>
        ELSE LET netPositions == calculateNetPositions(batches[b].period)
                 settlementLegs == treasuryGenerateSettlementLegs(netPositions)
                 totalAmount == SumSeq(Field(settlementLegs, "amount"))
                 reserveData == [amount |-> totalAmount, currency |-> "GHS",
                                 reference |-> Reference(batchId)]
                 reserveResult == reserveFunds(reserveData)
                 reserved == [calls EXCEPT !.reserveFunds = Append(@, reserveData)]
             IN  IF ~reserveResult.success
                 THEN /\ calls' = reserved
                      /\ response' = [op |-> "execute", status |-> 400, batchId |-> batchId,
                                      error |-> "Insufficient escrow funds"]
                      /\ UNCHANGED <<execVars, netVars, recVars, invoices, payments, batches, users,
                                     blockchainState, computed>>
                 ELSE LET executionResults ==
                              [k \in DOMAIN settlementLegs |->
                                  executeSettlementLeg(settlementLegs[k], batchId)]
                          legCalls == [k \in DOMAIN settlementLegs |->
                                          [batchId |-> batchId, leg |-> settlementLegs[k]]]
                          allSuccessful == \A k \in DOMAIN executionResults :
                                              executionResults[k].success
                          executed == [reserved EXCEPT !.executeSettlementLeg = @ \o legCalls]
                      IN  /\ IF allSuccessful
                             THEN /\ batches' = [i \in DOMAIN batches |->
                                        IF batches[i].batchId = batchId
                                        THEN [batches[i] EXCEPT !.status = "EXECUTED",
                                                                !.executedAt = TRUE]
                                        ELSE batches[i]]
                                  /\ calls' = [executed EXCEPT !.releaseFunds =
                                        Append(@, [reference |-> Reference(batchId),
                                                   amount |-> totalAmount])]
                             ELSE /\ batches' = batches
                                  /\ calls' = [executed EXCEPT !.rollbackSettlement =
                                        Append(@, executionResults)]
                          /\ response' = [op |-> "execute", status |-> 200,
                                          batchId |-> batchId,
                                          success |-> allSuccessful,
                                          executionResults |-> executionResults,
                                          totalAmount |-> totalAmount,
                                          legsExecuted |-> Len(SelectSeq(executionResults,
                                                              LAMBDA r : r.success)),
                                          totalLegs |-> Len(settlementLegs)]
                          /\ UNCHANGED <<execVars, netVars, recVars, invoices, payments, users,
                                         blockchainState, computed>>

\* POST, case 'REJECT_SETTLEMENT': rejectSettlement is not defined in the
\* module, the call throws and the catch answers 500
rejectSettlement(batchId) ==
    /\ response' = [op |-> "reject", status |-> 500,
                    error |-> "Treasury operation failed"]
    /\ UNCHANGED <<execVars, netVars, recVars, invoices, payments, batches, users, blockchainState,
                   calls, computed>>

-----------------------------------------------------------------------------
(* part_005: approveSettlement and executeSettlement of the mock ledger    *)

\* Math.ceil(n * 0.67) for the small n of the model
Ceil67(n) == (n * 67 + 99) \div 100

\* the approvers and approvals arrays a request may carry
ApprovalInputs ==
    { [approvers |-> <<>>, approvals |-> <<>>],
      [approvers |-> <<"u1">>, approvals |-> <<"u1">>],
      [approvers |-> <<"u1", "u2", "u3">>, approvals |-> <<"u1", "u2">>],
      [approvers |-> <<"u1", "u2", "u3">>, approvals |-> <<"u1", "u2", "u3">>] }

\* blockchainState.transactions.push(transaction); blockchainState.currentBlock++
Confirm(contractType, batchId) ==
    [transactions |-> Append(blockchainState.transactions,
                             [contractType |-> contractType,
                              blockNumber |-> blockchainState.currentBlock + 1,
                              status |-> "CONFIRMED"]),
     currentBlock |-> blockchainState.currentBlock + 1]

\* simulated stands for simulateConsensus(): Math.random() > 0.05
blockchainApproveSettlement(batchId, approvers, approvals, simulated) ==
    LET requiredApprovals == Ceil67(Len(approvers))
        hasQuorum == Len(approvals) >= requiredApprovals
        consensus == simulated /\ hasQuorum
    IN  /\ blockchainState.currentBlock < MaxBlock
        /\ IF consensus
           THEN /\ blockchainState' = Confirm("SETTLEMENT_APPROVAL", batchId)
                /\ batches' = [i \in DOMAIN batches |->
                      IF batches[i].batchId = batchId
                      THEN [batches[i] EXCEPT !.status = "APPROVED",
                                              !.smartContractTxId =
                                                  blockchainState.currentBlock + 1]
                      ELSE batches[i]]
           ELSE UNCHANGED <<blockchainState, batches>>
        /\ response' = [op |-> "blockchainApprove", status |-> 200, success |-> consensus]
        /\ UNCHANGED <<execVars, netVars, recVars, invoices, payments, users, calls, computed>>

\* db.payment.create of one leg; settlementBatchId reads executionData.batchIdId
LegPayment(leg) ==
    [invoiceId |-> Undefined,
     payerId |-> leg.payerId,
     payeeId |-> leg.payeeId,
     amount |-> leg.amount,
     currency |-> leg.currency,
     status |-> "COMPLETED",
     settlementBatchId |-> Undefined]

\* the settlementLegs a request may carry
LegInputs ==
    {<<>>, <<[payerId |-> "B", payeeId |-> "A", amount |-> 1, currency |-> "GHS"]>>}
    \cup { computed[i].settlementLegs : i \in DOMAIN computed }

blockchainExecuteSettlement(batchId, settlementLegs, simulated) ==
    LET consensus == simulated
    IN  /\ blockchainState.currentBlock < MaxBlock
        /\ IF consensus
           THEN /\ blockchainState' = Confirm("SETTLEMENT_EXECUTION", batchId)
                /\ batches' = [i \in DOMAIN batches |->
                      IF batches[i].batchId = batchId
                      THEN [batches[i] EXCEPT !.status = "EXECUTED", !.executedAt = TRUE]
                      ELSE batches[i]]
                /\ payments' = payments \o [k \in DOMAIN settlementLegs |->
                                               LegPayment(settlementLegs[k])]
           ELSE UNCHANGED <<blockchainState, batches, payments>>
        /\ response' = [op |-> "blockchainExecute", status |-> 200, batchId |-> batchId,
                        success |-> consensus]
        /\ UNCHANGED <<execVars, netVars, recVars, invoices, users, calls, computed>>

-----------------------------------------------------------------------------

Next ==
    \/ \E period \in Periods : NettingPOST(period)
    \/ \E i \in DOMAIN invoices : importPayments(i, MaxPaid)
    \/ \E batchId \in BatchIds : executeSettlement(batchId)
    \/ \E batchId \in BatchIds : rejectSettlement(batchId)
    \/ \E batchId \in BatchIds, in \in ApprovalInputs, simulated \in BOOLEAN :
          blockchainApproveSettlement(batchId, in.approvers, in.approvals, simulated)
    \/ \E batchId \in BatchIds, settlementLegs \in LegInputs, simulated \in BOOLEAN :
          blockchainExecuteSettlement(batchId, settlementLegs, simulated)

\* compute, execute and reject requests of the treasury, and the approve and
\* execute requests of the mock ledger
Spec == Init /\ [][Next]_vars

NextApprove ==
    \/ \E period \in Periods : NettingPOST(period)
    \/ \E batchId \in BatchIds, userId \in UserIds \cup {"nobody"} :
          approveSettlement(batchId, userId)
    \/ \E batchId \in BatchIds : executeSettlement(batchId)

\* compute requests and the approve and execute requests of the treasury
SpecApprove == Init /\ [][NextApprove]_vars

-----------------------------------------------------------------------------
(* Settlement properties                                                   *)

StatusOf(batchId) == batches[FindBatch(batchId)].status

\* the last request was an execute request that reported success
ExecuteSucceeded ==
    response.op = "execute" /\ response.status = 200 /\ response.success

\* the approvers with a recorded approval of the batch
Approvers(batchId) == {u \in UserIds : calls.recordApproval[<<batchId, u>>] > 0}

\* payments tagged with the batch
BatchPayments(batchId) ==
    SelectSeq(payments, LAMBDA p : p.settlementBatchId = batchId /\ p.status = "COMPLETED")

\* what the netting POST returned when it created the batch
ComputedFor(batchId) ==
    computed[CHOOSE i \in DOMAIN computed : computed[i].batchId = batchId]

\* C3: a batch's status only moves COMPUTED -> APPROVED -> EXECUTED or into
\* FAILED / REJECTED; a batch that is EXECUTED, FAILED or REJECTED keeps its
\* status for ever.
C3_StatusMachine ==
    [][\A i \in DOMAIN batches :
          LET s == batches[i].status
              t == batches'[i].status
          IN  \/ s = t
              \/ s = "COMPUTED" /\ t \in {"APPROVED", "REJECTED"}
              \/ s = "APPROVED" /\ t \in {"EXECUTED", "FAILED"}]_vars

\* C4: an execute request for a batch that does not exist or is not APPROVED
\* is rejected, creates no payment, reserves no funds and leaves every batch
\* as it was; a batch becomes EXECUTED only from APPROVED.
C4_ExecuteOnlyFromApproved ==
    [][/\ \A i \in DOMAIN batches :
            (batches[i].status # "EXECUTED" /\ batches'[i].status = "EXECUTED")
                => batches[i].status = "APPROVED"
       /\ (/\ response'.op \in {"execute", "blockchainExecute"}
           /\ \/ FindBatch(response'.batchId) = 0
              \/ StatusOf(response'.batchId) # "APPROVED")
            => /\ batches' = batches
               /\ payments' = payments
               /\ calls'.reserveFunds = calls.reserveFunds
               /\ \/ response'.status # 200
                  \/ ~response'.success]_vars

\* C5: a batch is APPROVED exactly when three approvals are recorded for it:
\* with fewer it is still COMPUTED, with three recorded approvals (three
\* approvers) it is no longer COMPUTED.
C5_QuorumOfThree ==
    \A i \in DOMAIN batches :
        /\ batches[i].status = "APPROVED"
              => Recorded(batches[i].batchId) >= totalRequiredApprovers
        /\ Cardinality(Approvers(batches[i].batchId)) >= totalRequiredApprovers
              => batches[i].status # "COMPUTED"

\* C6: once an approver's approval of a batch is recorded, no further
\* approval of that batch by the same approver is recorded: the request is
\* turned away before recordApproval.
C6_DuplicateApprovalRejected ==
    [][\A k \in DOMAIN calls.recordApproval :
          calls.recordApproval[k] >= 1
              => calls'.recordApproval[k] = calls.recordApproval[k]]_vars

\* C8: after an execution in which every leg succeeded the batch is EXECUTED,
\* every leg computed for it has exactly one COMPLETED payment of the batch,
\* totalNetAmount is the sum of the batch's payments, and the reservation of
\* the batch has been released.
C8_ExecutedBatchIsPaid ==
    ExecuteSucceeded =>
        LET b == response.batchId
            legs == ComputedFor(b).settlementLegs
            paid == BatchPayments(b)
        IN  /\ StatusOf(b) = "EXECUTED"
            /\ \A k \in DOMAIN legs :
                  Cardinality({n \in DOMAIN paid :
                                  /\ paid[n].payerId = legs[k].payerId
                                  /\ paid[n].payeeId = legs[k].payeeId
                                  /\ paid[n].amount = legs[k].amount}) = 1
            /\ batches[FindBatch(b)].totalNetAmount = SumSeq(Field(paid, "amount"))
            /\ \E n \in DOMAIN calls.releaseFunds :
                  calls.releaseFunds[n].reference = Reference(b)

\* C10: the legs executed and the amount reserved for a batch are the legs
\* and the totalNetAmount recorded when the batch was computed.
C10_ExecutesWhatWasComputed ==
    ExecuteSucceeded =>
        LET b == response.batchId
            legCalls == SelectSeq(calls.executeSettlementLeg, LAMBDA c : c.batchId = b)
        IN  /\ Field(legCalls, "leg") = ComputedFor(b).settlementLegs
            /\ \A n \in DOMAIN calls.reserveFunds :
                  calls.reserveFunds[n].reference = Reference(b)
                      => calls.reserveFunds[n].amount = ComputedFor(b).totalNetAmount

\* C11: at most one batch of a period is in COMPUTED or APPROVED status at any
\* moment: a compute request for a period that has such a batch creates no
\* second batch.
C11_OneOpenBatchPerPeriod ==
    \A i, j \in DOMAIN batches :
        (/\ i # j
         /\ batches[i].period = batches[j].period
         /\ batches[i].status \in {"COMPUTED", "APPROVED"})
            => batches[j].status \notin {"COMPUTED", "APPROVED"}

\* C20: for a list with d parties of negative and c parties of positive net
\* position, d + c >= 1, generateSettlementLegs returns at most d + c - 1 legs.
C20_LegCountBound ==
    NetDone =>
        LET pos == netOut.result.calculated
        IN  NumDebtors(pos) + NumCreditors(pos) >= 1
                => Len(netOut.result.settlementLegs)
                      <= NumDebtors(pos) + NumCreditors(pos) - 1

\* C20 witness: a list that does not sum to zero, with one debtor and two
\* creditors, settled with exactly two legs.
C20_Witness ==
    /\ NetDone /\ netIn.kind = "positions"
    /\ SumNet(netOut.result.calculated) # 0
    /\ NumDebtors(netOut.result.calculated) = 1
    /\ NumCreditors(netOut.result.calculated) = 2
    /\ Len(netOut.result.settlementLegs) = 2

-----------------------------------------------------------------------------
(* reconciliation/route.ts: performReconciliation.  Time is counted in     *)
(* days, quantities are integers, and a percentage is kept as the exact    *)
(* ratio num/den of the source's floating-point value.                     *)

MaxRecInvoices == 2   \* invs handed to performReconciliation
MaxDeliveries == 2    \* dels handed to performReconciliation
MaxRecCalls == 2      \* calls of performReconciliation on the same arguments

\* 24 * 60 * 60 * 1000 ms, in units of time
DayMs == 1

Rat(n, d) == [num |-> n, den |-> d]

\* a <= b for ratios with positive denominators
RatLeq(a, b) == a.num * b.den <= b.num * a.den

\* a > b
RatGt(a, b) == a.num * b.den > b.num * a.den

\* getDefaultRules, lines 77-83
getDefaultRules ==
    << [type |-> "TIME_WINDOW", value |-> 7, unit |-> "DAYS"],
       [type |-> "TOLERANCE_BAND", value |-> 5, unit |-> "PERCENTAGE"],
       [type |-> "CONTRACT_TERMS", value |-> 1, unit |-> "FIXED"] >>

\* rules.find(r => r.type === type): the index of the first such rule, 0 for undefined
FindRule(rules, type) ==
    IF \E i \in DOMAIN rules : rules[i].type = type
    THEN CHOOSE i \in DOMAIN rules :
            /\ rules[i].type = type
            /\ \A j \in 1..(i - 1) : rules[j].type # type
    ELSE 0

\* lines 96-97
timeWindowMs(rules) ==
    IF FindRule(rules, "TIME_WINDOW") # 0
    THEN rules[FindRule(rules, "TIME_WINDOW")].value * DayMs
    ELSE 7 * DayMs

\* line 98
tolerancePercent(rules) ==
    IF FindRule(rules, "TOLERANCE_BAND") # 0
    THEN rules[FindRule(rules, "TOLERANCE_BAND")].value
    ELSE 5

\* the deliveries inside the time window, whatever their contract
matchingDeliveriesAnyContract(invoice, dels, rules) ==
    SelectSeq(dels, LAMBDA delivery :
        /\ delivery.timestamp >= invoice.periodStart - timeWindowMs(rules)
        /\ delivery.timestamp <= invoice.periodEnd + timeWindowMs(rules))

\* the two ends of the time window are left out
matchingDeliveriesOpenInterval(invoice, dels, rules) ==
    SelectSeq(dels, LAMBDA delivery :
        /\ delivery.contractId = invoice.contractId
        /\ delivery.timestamp > invoice.periodStart - timeWindowMs(rules)
        /\ delivery.timestamp < invoice.periodEnd + timeWindowMs(rules))

\* lines 100-109: the deliveries of the invoice's contract inside the time window
matchingDeliveries(invoice, dels, rules) ==
    SelectSeq(dels, LAMBDA delivery :
        /\ delivery.contractId = invoice.contractId
        /\ delivery.timestamp >= invoice.periodStart - timeWindowMs(rules)
        /\ delivery.timestamp <= invoice.periodEnd + timeWindowMs(rules))

\* a || b on numbers
OrElse(a, b) == IF a # 0 THEN a ELSE b

\* lines 126-132: JSON.parse throws on malformed text, the property read throws
\* on null; both are caught and leave expectedQuantity at 0
expectedQuantity(invoice) ==
    IF invoice.lineItems.json \in {"malformed", "null"} THEN 0
    ELSE OrElse(invoice.lineItems.energy,
                OrElse(invoice.lineItems.gas, OrElse(invoice.lineItems.fuel, 0)))

\* lines 135-136
Variance(totalDelivered, expected) ==
    IF expected > 0 THEN Rat(Abs(totalDelivered - expected) * 100, expected)
    ELSE Rat(100, 1)

\* line 138: Math.max(0, 100 - variance)
ConfidenceScore(variance) == Rat(Max(0, 100 * variance.den - variance.num), variance.den)

\* variance.toFixed(1), in tenths of a percent (half rounds up)
ToFixed1(variance) == (2 * 10 * variance.num + variance.den) \div (2 * variance.den)

\* HIGH from 20 and MEDIUM from 10 on
SeverityFrom(variance) ==
    IF RatLeq(Rat(20, 1), variance) THEN "HIGH"
    ELSE IF RatLeq(Rat(10, 1), variance) THEN "MEDIUM" ELSE "LOW"

\* line 152
Severity(variance) ==
    IF RatGt(variance, Rat(20, 1)) THEN "HIGH"
    ELSE IF RatGt(variance, Rat(10, 1)) THEN "MEDIUM" ELSE "LOW"

\* lines 113-118
NoDeliveryException(invoice) ==
    [invoiceId |-> invoice.invoiceId,
     reason |-> "NO_MATCHING_DELIVERIES",
     severity |-> "HIGH",
     recommendation |-> [text |-> "Verify delivery data or invoice period"]]

\* lines 141-147
MatchedEntry(invoice, selected, variance) ==
    [invoiceId |-> invoice.invoiceId,
     deliveryIds |-> Field(selected, "deliveryId"),
     confidenceScore |-> ConfidenceScore(variance),
     matchedAmount |-> invoice.totalAmount,
     variance |-> variance]

\* lines 149-154
VarianceException(invoice, variance) ==
    [invoiceId |-> invoice.invoiceId,
     reason |-> "QUANTITY_VARIANCE",
     severity |-> Severity(variance),
     recommendation |-> [text |-> "Quantity variance of % exceeds tolerance",
                         tenths |-> ToFixed1(variance)]]

\* an invoice is matched only below the band, not at it
RecStepStrict(acc, invoice, dels, rules) ==
    LET selected == matchingDeliveries(invoice, dels, rules)
        variance == Variance(SumSeq(Field(selected, "quantity")), expectedQuantity(invoice))
    IN  IF Len(selected) = 0
        THEN [acc EXCEPT !.exceptions = Append(@, NoDeliveryException(invoice))]
        ELSE IF RatGt(Rat(tolerancePercent(rules), 1), variance)
        THEN [acc EXCEPT !.matched = Append(@, MatchedEntry(invoice, selected, variance))]
        ELSE [acc EXCEPT !.exceptions = Append(@, VarianceException(invoice, variance))]

\* an invoice classified by an earlier call is left out of the later ones
RecStepRemembering(acc, invoice, dels, rules) ==
    LET selected == matchingDeliveries(invoice, dels, rules)
        variance == Variance(SumSeq(Field(selected, "quantity")), expectedQuantity(invoice))
    IN  IF recOut # <<>>
        THEN acc
        ELSE IF Len(selected) = 0
        THEN [acc EXCEPT !.exceptions = Append(@, NoDeliveryException(invoice))]
        ELSE IF RatLeq(variance, Rat(tolerancePercent(rules), 1))
        THEN [acc EXCEPT !.matched = Append(@, MatchedEntry(invoice, selected, variance))]
        ELSE [acc EXCEPT !.exceptions = Append(@, VarianceException(invoice, variance))]

\* lines 92-155: the body of the loop for one invoice, on the lists built so far
RecStep(acc, invoice, dels, rules) ==
    LET selected == matchingDeliveries(invoice, dels, rules)
        totalDelivered == SumSeq(Field(selected, "quantity"))
        variance == Variance(totalDelivered, expectedQuantity(invoice))
    IN  IF Len(selected) = 0
        THEN [acc EXCEPT !.exceptions = Append(@, NoDeliveryException(invoice))]
        ELSE IF RatLeq(variance, Rat(tolerancePercent(rules), 1))
        THEN [acc EXCEPT !.matched = Append(@, MatchedEntry(invoice, selected, variance))]
        ELSE [acc EXCEPT !.exceptions = Append(@, VarianceException(invoice, variance))]

RECURSIVE RecFold(_, _, _, _)
RecFold(acc, invs, dels, rules) ==
    IF invs = <<>> THEN acc
    ELSE RecFold(RecStep(acc, Head(invs), dels, rules),
                 Tail(invs), dels, rules)

\* lines 85-167
performReconciliation(invs, dels, rules) ==
    LET r == RecFold([matched |-> <<>>, exceptions |-> <<>>], invs, dels, rules)
    IN  [matched |-> r.matched,
         exceptions |-> r.exceptions,
         summary |->
            [totalInvoices |-> Len(invs),
             matchedInvoices |-> Len(r.matched),
             exceptionalInvoices |-> Len(r.exceptions),
             matchRate |-> IF Len(invs) > 0
                           THEN Rat(Len(r.matched) * 100, Len(invs))
                           ELSE Rat(0, 1),
             totalMatchedAmount |-> SumSeq(Field(r.matched, "matchedAmount"))]]

-----------------------------------------------------------------------------
(* Pure reconciliation runs: the arguments are drawn in Init and one       *)
(* action calls performReconciliation on them, up to MaxRecCalls times.    *)

\* invoice.lineItems: text that JSON.parse rejects, the text null, or an object
LineItemInputs ==
    { [json |-> "malformed"], [json |-> "null"],
      [json |-> "object", energy |-> 0, gas |-> 0, fuel |-> 0],
      [json |-> "object", energy |-> 20, gas |-> 0, fuel |-> 0],
      [json |-> "object", energy |-> 0, gas |-> 0, fuel |-> 10] }

\* invoices of contract K1 for the days 10..12; invoiceId is the place in the list
RecInvoiceLists ==
    { [i \in DOMAIN l |-> [invoiceId |-> i, contractId |-> "K1",
                           periodStart |-> 10, periodEnd |-> 12,
                           lineItems |-> l[i], totalAmount |-> 1]] :
        l \in SeqsUpTo(LineItemInputs, MaxRecInvoices) }

\* deliveries inside the period, eight days before it or eight days after it, of the invoices'
\* contract or (one kind) of another; deliveryId is the place in the list
DeliveryInputs ==
    { <<"K1", 12, 3>>, <<"K1", 12, 21>>, <<"K1", 20, 21>>, <<"K1", 2, 3>>, <<"K2", 12, 21>> }

DeliveryLists ==
    { [i \in DOMAIN l |-> [deliveryId |-> i, contractId |-> l[i][1],
                           timestamp |-> l[i][2], quantity |-> l[i][3]]] :
        l \in SeqsUpTo(DeliveryInputs, MaxDeliveries) }

RuleLists ==
    { <<>>,
      getDefaultRules,
      << [type |-> "TOLERANCE_BAND", value |-> 0, unit |-> "PERCENTAGE"] >>,
      << [type |-> "TIME_WINDOW", value |-> 8, unit |-> "DAYS"],
         [type |-> "TOLERANCE_BAND", value |-> 25, unit |-> "PERCENTAGE"] >>,
      << [type |-> "TOLERANCE_BAND", value |-> 100, unit |-> "PERCENTAGE"],
         [type |-> "TOLERANCE_BAND", value |-> 5, unit |-> "PERCENTAGE"] >> }

InitMatching ==
    /\ \E invs \in RecInvoiceLists, dels \in DeliveryLists, rules \in RuleLists :
          recIn = [kind |-> "reconcile", invoices |-> invs, deliveries |-> dels,
                   rules |-> rules]
    /\ recOut = <<>>
    /\ deliveries = <<>>
    /\ disputes = <<>>
    /\ auditLog = <<>>
    /\ recRuns = <<>>
    /\ NetUnused
    /\ ExecUnused
    /\ invoices = <<>>
    /\ payments = <<>>
    /\ batches = <<>>
    /\ users = <<>>
    /\ blockchainState = [transactions |-> <<>>, currentBlock |-> 0]
    /\ calls = <<>>
    /\ computed = <<>>
    /\ response = NoResponse

\* one call of performReconciliation on the drawn arguments
RunReconciliation ==
    /\ recIn.kind = "reconcile"
    /\ Len(recOut) < MaxRecCalls
    /\ recOut' = Append(recOut,
                        performReconciliation(recIn.invoices, recIn.deliveries, recIn.rules))
    /\ UNCHANGED <<execVars, netVars, recIn, deliveries, disputes, auditLog, recRuns, invoices, payments,
                   batches, users, blockchainState, calls, computed, response>>

NextMatching == RunReconciliation

SpecMatching == InitMatching /\ [][NextMatching]_vars

-----------------------------------------------------------------------------
(* Reconciliation properties of the pure runs                              *)

RecRan == recIn.kind = "reconcile" /\ recOut # <<>>

\* the entries of the first call's result for the invoice with this invoiceId
RecMatched(id) ==
    {k \in DOMAIN recOut[1].matched : recOut[1].matched[k].invoiceId = id}

RecExceptions(id) ==
    {k \in DOMAIN recOut[1].exceptions : recOut[1].exceptions[k].invoiceId = id}

\* the deliveries of the i-th invoice's contract with a timestamp in the window
EligibleFor(i) ==
    {k \in DOMAIN recIn.deliveries :
        /\ recIn.deliveries[k].contractId = recIn.invoices[i].contractId
        /\ recIn.deliveries[k].timestamp >= recIn.invoices[i].periodStart - timeWindowMs(recIn.rules)
        /\ recIn.deliveries[k].timestamp <= recIn.invoices[i].periodEnd + timeWindowMs(recIn.rules)}

DeliveredFor(i) == SumOver([k \in DOMAIN recIn.deliveries |-> recIn.deliveries[k].quantity],
                           EligibleFor(i))

\* the i-th invoice has line items that do not parse or no non-zero quantity
BadLineItems(i) ==
    \/ recIn.invoices[i].lineItems.json # "object"
    \/ /\ recIn.invoices[i].lineItems.energy = 0
       /\ recIn.invoices[i].lineItems.gas = 0
       /\ recIn.invoices[i].lineItems.fuel = 0

ExpectedFor(i) ==
    IF BadLineItems(i) THEN 0
    ELSE IF recIn.invoices[i].lineItems.energy # 0 THEN recIn.invoices[i].lineItems.energy
    ELSE IF recIn.invoices[i].lineItems.gas # 0 THEN recIn.invoices[i].lineItems.gas
    ELSE recIn.invoices[i].lineItems.fuel

\* the variance of the i-th invoice is at most p percent / more than p percent
VarianceAtMost(i, p) ==
    IF ExpectedFor(i) > 0
    THEN Abs(DeliveredFor(i) - ExpectedFor(i)) * 100 <= p * ExpectedFor(i)
    ELSE 100 <= p

VarianceAbove(i, p) == ~VarianceAtMost(i, p)

C13_NoMatchingDeliveries ==
    RecRan =>
        \A i \in DOMAIN recIn.invoices :
            EligibleFor(i) = {} =>
                /\ RecMatched(i) = {}
                /\ Cardinality(RecExceptions(i)) = 1
                /\ \A k \in RecExceptions(i) :
                      /\ recOut[1].exceptions[k].reason = "NO_MATCHING_DELIVERIES"
                      /\ recOut[1].exceptions[k].severity = "HIGH"
                      /\ "confidenceScore" \notin DOMAIN recOut[1].exceptions[k]

\* C13 witness: deliveries exist, of another contract or outside the window,
\* and an invoice has none that is eligible.
C13_Witness ==
    /\ RecRan
    /\ \E k \in DOMAIN recIn.deliveries : recIn.deliveries[k].contractId # "K1"
    /\ \E k \in DOMAIN recIn.deliveries :
          /\ recIn.deliveries[k].contractId = "K1"
          /\ recIn.deliveries[k].timestamp > 12 + timeWindowMs(recIn.rules)
    /\ \E i \in DOMAIN recIn.invoices :
          /\ EligibleFor(i) = {}
          /\ \E k \in RecExceptions(i) :
                recOut[1].exceptions[k].reason = "NO_MATCHING_DELIVERIES"

\* C14: for an invoice whose variance exceeds the band the severity is HIGH
\* when the variance is above 20, MEDIUM when it is above 10 and at most 20,
\* LOW otherwise, whatever the band.
C14_SeverityBands ==
    RecRan =>
        \A i \in DOMAIN recIn.invoices :
            (EligibleFor(i) # {} /\ VarianceAbove(i, tolerancePercent(recIn.rules))) =>
                /\ RecExceptions(i) # {}
                /\ \A k \in RecExceptions(i) :
                      recOut[1].exceptions[k].severity =
                          IF VarianceAbove(i, 20) THEN "HIGH"
                          ELSE IF VarianceAbove(i, 10) THEN "MEDIUM" ELSE "LOW"

\* C14 witness: an invoice with a variance of exactly 20 percent is a MEDIUM
\* exception.
C14_Witness ==
    /\ RecRan
    /\ \E i \in DOMAIN recIn.invoices :
          /\ ExpectedFor(i) > 0
          /\ Abs(DeliveredFor(i) - ExpectedFor(i)) * 100 = 20 * ExpectedFor(i)
          /\ \E k \in RecExceptions(i) : recOut[1].exceptions[k].severity = "MEDIUM"

\* the invoices of the run whose line items are in order
GoodInvoices == SelectSeq(recIn.invoices, LAMBDA inv : ~BadLineItems(inv.invoiceId))

\* C15: an invoice with malformed line items or no non-zero quantity is an
\* exception (with a variance of 100 when it has deliveries) and never
\* matched, and the other invoices of the run are classified as they are in a
\* run without it.
C15_BadLineItemsFailSoft ==
    RecRan =>
        /\ \A i \in DOMAIN recIn.invoices :
              BadLineItems(i) =>
                  /\ RecMatched(i) = {}
                  /\ Cardinality(RecExceptions(i)) = 1
                  /\ EligibleFor(i) # {} =>
                        \A k \in RecExceptions(i) :
                            /\ recOut[1].exceptions[k].reason = "QUANTITY_VARIANCE"
                            /\ recOut[1].exceptions[k].recommendation.tenths = 1000
        /\ LET alone == performReconciliation(GoodInvoices, recIn.deliveries, recIn.rules)
           IN  /\ alone.matched =
                    SelectSeq(recOut[1].matched, LAMBDA m : ~BadLineItems(m.invoiceId))
               /\ alone.exceptions =
                    SelectSeq(recOut[1].exceptions, LAMBDA x : ~BadLineItems(x.invoiceId))

-----------------------------------------------------------------------------
(* reconciliation/route.ts: POST and updateInvoiceStatuses on the ledger.  *)
(* The handler awaits every database call, so each call is a step of its   *)
(* own and the ledger can be seen between two of them; recRuns holds, for  *)
(* each request, the step it has reached and its local values.             *)

MaxRuns == 2          \* reconciliation requests in a run

\* a column that holds no value
Null == [null |-> TRUE]

\* JSON.stringify of a list of ids: the text of the list, not the list
JSONstringify(v) == [text |-> v]

\* the invoices of the ledger: PENDING, of contract K1, issued by A to B
LedgerLineItems ==
    { [json |-> "malformed"],
      [json |-> "object", energy |-> 20, gas |-> 0, fuel |-> 0] }

RecLedgers ==
    { [i \in DOMAIN l |-> [id |-> <<"id", i>>, invoiceId |-> i, contractId |-> "K1",
                           periodStart |-> 10, periodEnd |-> 12,
                           lineItems |-> l[i], totalAmount |-> 1,
                           issuerId |-> "A", counterpartyId |-> "B",
                           status |-> "PENDING",
                           confidenceScore |-> Null, matchedDeliveries |-> Null]] :
        l \in SeqsUpTo(LedgerLineItems, MaxRecInvoices) }

RecDeliveries ==
    { [i \in DOMAIN l |-> [deliveryId |-> i, contractId |-> l[i][1],
                           timestamp |-> l[i][2], quantity |-> l[i][3]]] :
        l \in SeqsUpTo({<<"K1", 12, 3>>, <<"K1", 12, 21>>, <<"K2", 12, 21>>}, MaxDeliveries) }

\* request bodies: a period, with or without rules
RecRequests ==
    { [periodStart |-> 10, periodEnd |-> 12],
      [periodStart |-> 10, periodEnd |-> 12,
       rules |-> << [type |-> "TOLERANCE_BAND", value |-> 0, unit |-> "PERCENTAGE"] >>] }

InitReconcile ==
    /\ invoices \in RecLedgers
    /\ deliveries \in RecDeliveries
    /\ disputes = <<>>
    /\ auditLog = <<>>
    /\ recRuns = <<>>
    /\ recIn = [kind |-> "none"]
    /\ recOut = <<>>
    /\ NetUnused
    /\ ExecUnused
    /\ payments = <<>>
    /\ batches = <<>>
    /\ users = <<>>
    /\ blockchainState = [transactions |-> <<>>, currentBlock |-> 0]
    /\ calls = <<>>
    /\ computed = <<>>
    /\ response = NoResponse

\* db.<table>.updateMany / update: the row with the columns of data replaced
WithData(row, data) ==
    [f \in DOMAIN row |-> IF f \in DOMAIN data THEN data[f] ELSE row[f]]

\* db.invoice.updateMany({ where: { invoiceId }, data })
UpdateInvoices(invoiceId, data) ==
    [i \in DOMAIN invoices |->
        IF invoices[i].invoiceId = invoiceId THEN WithData(invoices[i], data)
        ELSE invoices[i]]

\* the request moves on to the next list or to its response when a list is done
Advance(run) ==
    IF run.pc = "matched" /\ run.k > Len(run.result.matched)
    THEN IF run.result.exceptions = <<>>
         THEN [run EXCEPT !.pc = "respond"]
         ELSE [run EXCEPT !.pc = "exceptions", !.k = 1]
    ELSE IF run.pc = "exceptions" /\ run.k > Len(run.result.exceptions)
    THEN [run EXCEPT !.pc = "respond"]
    ELSE run

\* lines 35-65: both findMany calls and performReconciliation; the run keeps
\* the invoice rows it read (the handler's const invoices)
ReconciliationRead(req) ==
    /\ Len(recRuns) < MaxRuns
    /\ LET found == SelectSeq(invoices, LAMBDA inv :
                        /\ inv.periodStart >= req.periodStart
                        /\ inv.periodEnd <= req.periodEnd
                        /\ inv.status \in {"PENDING", "PARTIALLY_MATCHED"})
           dels == SelectSeq(deliveries, LAMBDA d :
                        d.timestamp >= req.periodStart /\ d.timestamp <= req.periodEnd)
           rules == IF "rules" \in DOMAIN req THEN req.rules ELSE getDefaultRules
       IN  recRuns' = Append(recRuns,
                Advance([pc |-> "matched", k |-> 1,
                         invoices |-> found,
                         result |-> performReconciliation(found, dels, rules),
                         invoice |-> Null]))
    /\ UNCHANGED <<execVars, netVars, recIn, recOut, deliveries, disputes, auditLog, invoices,
                   payments, batches, users, blockchainState, calls, computed, response>>

\* a request that arrives when every earlier one has been answered
ReconciliationPOST(req) ==
    /\ \A r \in DOMAIN recRuns : recRuns[r].pc = "done"
    /\ ReconciliationRead(req)

\* only the status is written for a matched invoice
MatchedDataStatusOnly(match) == [status |-> "MATCHED"]

\* lines 177-181: the columns written for a matched invoice
MatchedData(match) ==
    [status |-> "MATCHED",
     confidenceScore |-> match.confidenceScore,
     matchedDeliveries |-> JSONstringify(match.deliveryIds)]

\* lines 202-211: the dispute row; slaDeadline in days from now
DisputeData(invoice, exception) ==
    [disputeId |-> Len(disputes) + 1,
     invoiceId |-> invoice.id,
     contractId |-> invoice.contractId,
     raisedById |-> invoice.counterpartyId,
     receivedById |-> invoice.issuerId,
     reasonCode |-> "QUANTITY_VARIANCE",
     description |-> exception.recommendation,
     slaDeadline |-> 7 * DayMs]

recLedgerUnchanged ==
    UNCHANGED <<execVars, netVars, recIn, recOut, deliveries, auditLog, payments, batches, users,
                blockchainState, calls, computed>>

\* lines 174-183: one turn of the loop over the matched invoices
updateMatched(r) ==
    /\ recRuns[r].pc = "matched"
    /\ LET match == recRuns[r].result.matched[recRuns[r].k]
       IN  invoices' = UpdateInvoices(match.invoiceId, MatchedData(match))
    /\ recRuns' = [recRuns EXCEPT ![r] = Advance([@ EXCEPT !.k = @ + 1])]
    /\ UNCHANGED <<disputes, response>>
    /\ recLedgerUnchanged

\* lines 186-192: the status write for one exception
updateException(r) ==
    /\ recRuns[r].pc = "exceptions"
    /\ LET exception == recRuns[r].result.exceptions[recRuns[r].k]
       IN  /\ invoices' = UpdateInvoices(exception.invoiceId, [status |-> "PARTIALLY_MATCHED"])
           /\ recRuns' = [recRuns EXCEPT ![r] =
                            IF exception.severity = "HIGH"
                            THEN [@ EXCEPT !.pc = "find"]
                            ELSE Advance([@ EXCEPT !.k = @ + 1])]
    /\ UNCHANGED <<disputes, response>>
    /\ recLedgerUnchanged

\* lines 195-199: findUnique for the invoice of a HIGH exception
findInvoice(r) ==
    /\ recRuns[r].pc = "find"
    /\ LET exception == recRuns[r].result.exceptions[recRuns[r].k]
           rows == SelectSeq(invoices, LAMBDA inv : inv.invoiceId = exception.invoiceId)
       IN  recRuns' = [recRuns EXCEPT ![r] =
                          IF rows # <<>>
                          THEN [@ EXCEPT !.pc = "create", !.invoice = rows[1]]
                          ELSE Advance([@ EXCEPT !.pc = "exceptions", !.k = @ + 1])]
    /\ UNCHANGED <<invoices, disputes, response>>
    /\ recLedgerUnchanged

\* lines 200-212: db.dispute.create
createDispute(r) ==
    /\ recRuns[r].pc = "create"
    /\ disputes' = Append(disputes,
                          DisputeData(recRuns[r].invoice,
                                      recRuns[r].result.exceptions[recRuns[r].k]))
    /\ recRuns' = [recRuns EXCEPT ![r] =
                      Advance([@ EXCEPT !.pc = "exceptions", !.k = @ + 1, !.invoice = Null])]
    /\ UNCHANGED <<invoices, response>>
    /\ recLedgerUnchanged

\* line 70: the response carries the result
respond(r) ==
    /\ recRuns[r].pc = "respond"
    /\ response' = [op |-> "reconcile", status |-> 200, result |-> recRuns[r].result]
    /\ recRuns' = [recRuns EXCEPT ![r].pc = "done"]
    /\ UNCHANGED <<invoices, disputes>>
    /\ recLedgerUnchanged

NextReconcile ==
    \/ \E req \in RecRequests : ReconciliationPOST(req)
    \/ \E r \in DOMAIN recRuns : updateMatched(r)
    \/ \E r \in DOMAIN recRuns : updateException(r)
    \/ \E r \in DOMAIN recRuns : findInvoice(r)
    \/ \E r \in DOMAIN recRuns : createDispute(r)
    \/ \E r \in DOMAIN recRuns : respond(r)

SpecReconcile == InitReconcile /\ [][NextReconcile]_vars

-----------------------------------------------------------------------------
(* Reconciliation properties of the ledger                                 *)

\* the ledger rows with this invoiceId
RowsOf(invoiceId) == {i \in DOMAIN invoices : invoices[i].invoiceId = invoiceId}

\* the matched entries / exceptions of request r whose status write is done
WrittenMatched(r) ==
    {j \in DOMAIN recRuns[r].result.matched :
        recRuns[r].pc # "matched" \/ j < recRuns[r].k}

WrittenExceptions(r) ==
    {j \in DOMAIN recRuns[r].result.exceptions :
        \/ recRuns[r].pc \in {"respond", "done"}
        \/ recRuns[r].pc = "exceptions" /\ j < recRuns[r].k
        \/ recRuns[r].pc \in {"find", "create"} /\ j <= recRuns[r].k}

\* the disputes raised on the ledger row i
DisputesOn(i) == {n \in DOMAIN disputes : disputes[n].invoiceId = invoices[i].id}

C17_ExceptionWithDispute ==
    recRuns # <<>> =>
        \A j \in WrittenExceptions(Len(recRuns)) :
            LET exception == recRuns[Len(recRuns)].result.exceptions[j]
            IN  \A i \in RowsOf(exception.invoiceId) :
                    /\ invoices[i].status = "PARTIALLY_MATCHED"
                    /\ exception.severity = "HIGH" <=> DisputesOn(i) # {}
                    /\ \A n \in DisputesOn(i) :
                          /\ disputes[n].reasonCode = "QUANTITY_VARIANCE"
                          /\ disputes[n].raisedById = invoices[i].counterpartyId
                          /\ disputes[n].receivedById = invoices[i].issuerId

\* C19: every step that moves an invoice to MATCHED or PARTIALLY_MATCHED, or
\* creates a batch, or changes the status of a batch, appends one event per
\* transition to the audit log.
C19_TransitionsAudited ==
    [][Len(auditLog') - Len(auditLog) =
          Cardinality({i \in DOMAIN invoices :
                          /\ invoices'[i].status # invoices[i].status
                          /\ invoices'[i].status \in {"MATCHED", "PARTIALLY_MATCHED"}})
          + Cardinality({b \in DOMAIN batches' :
                          \/ b \notin DOMAIN batches
                          \/ batches'[b].status # batches[b].status})]_vars

-----------------------------------------------------------------------------
(* Properties of the legs and of the position list                         *)

Payers(legs) == { legs[k].payerId : k \in DOMAIN legs }

Payees(legs) == { legs[k].payeeId : k \in DOMAIN legs }

\* the net position the party had when generateSettlementLegs was called
NetBefore(id) ==
    LET pos == netOut.result.calculated
    IN  pos[CHOOSE i \in DOMAIN pos : pos[i].partyId = id].netPosition

\* C21: in the legs generateSettlementLegs returns no party is both payer and
\* payee, every payer had a negative and every payee a positive net position,
\* every amount is strictly positive, and a party with net position zero is
\* in no leg.
C21_LegParties ==
    NetDone =>
        LET pos == netOut.result.calculated
            legs == netOut.result.settlementLegs
        IN  /\ Payers(legs) \cap Payees(legs) = {}
            /\ \A k \in DOMAIN legs :
                  /\ \E i \in DOMAIN pos : pos[i].partyId = legs[k].payerId
                  /\ \E i \in DOMAIN pos : pos[i].partyId = legs[k].payeeId
                  /\ NetBefore(legs[k].payerId) < 0
                  /\ NetBefore(legs[k].payeeId) > 0
                  /\ legs[k].amount > 0
            /\ \A i \in DOMAIN pos :
                  pos[i].netPosition = 0 => pos[i].partyId \notin Payers(legs) \cup Payees(legs)

\* C21 witness: three parties from invoices, the middle one both owed and
\* owing the same amount (net zero), and a single leg between the other two.
C21_Witness ==
    /\ NetDone /\ netIn.kind = "invoices"
    /\ Len(netOut.result.calculated) = 3
    /\ \E i \in DOMAIN netOut.result.calculated :
          /\ netOut.result.calculated[i].netPosition = 0
          /\ netOut.result.calculated[i].totalReceivable > 0
    /\ Len(netOut.result.settlementLegs) = 1

\* invoices of the drawn list that have an outstanding amount
Outstanding(inv) == inv.totalAmount - SumSeq(Field(inv.payments, "amount"))

OpenInvoices == { k \in DOMAIN netIn.invoices : Outstanding(netIn.invoices[k]) > 0 }

RECURSIVE SumOutstanding(_)
SumOutstanding(K) ==
    IF K = {} THEN 0
    ELSE LET k == CHOOSE x \in K : TRUE
         IN  Outstanding(netIn.invoices[k]) + SumOutstanding(K \ {k})

\* C26: calculateNettingPositions returns one position per party of an
\* invoice with a strictly positive outstanding amount; totalReceivable sums
\* the outstanding amounts of the invoices the party issued, totalPayable
\* those where it is counterparty, netPosition is their difference; an
\* invoice paid in full or over-paid adds to no position.
C26_PositionsPerParty ==
    (NetDone /\ netIn.kind = "invoices") =>
        LET pos == netOut.result.calculated
            involved == { netIn.invoices[k].issuer : k \in OpenInvoices }
                        \cup { netIn.invoices[k].counterparty : k \in OpenInvoices }
        IN  /\ { pos[i].partyId : i \in DOMAIN pos } = involved
            /\ Len(pos) = Cardinality(involved)
            /\ \A i \in DOMAIN pos :
                  /\ pos[i].totalReceivable =
                        SumOutstanding({ k \in OpenInvoices :
                                            netIn.invoices[k].issuer = pos[i].partyId })
                  /\ pos[i].totalPayable =
                        SumOutstanding({ k \in OpenInvoices :
                                            netIn.invoices[k].counterparty = pos[i].partyId })
                  /\ pos[i].netPosition = pos[i].totalReceivable - pos[i].totalPayable

\* C26 witness: two invoices, one over-paid and one partly paid; only the
\* parties of the second hold a position.
C26_Witness ==
    /\ NetDone /\ netIn.kind = "invoices"
    /\ Len(netIn.invoices) = 2
    /\ \E k \in DOMAIN netIn.invoices : Outstanding(netIn.invoices[k]) < 0
    /\ \E k \in DOMAIN netIn.invoices :
          /\ netIn.invoices[k].payments # <<>>
          /\ Outstanding(netIn.invoices[k]) > 0
    /\ Len(netOut.result.calculated) = 2

\* C29: after the netting computation every position in the result still
\* carries the netPosition calculateNettingPositions computed for the party,
\* equal to its totalReceivable - totalPayable.
C29_InputUnchanged ==
    (NetDone /\ netIn.kind = "invoices") =>
        /\ netOut.result.positions = netOut.result.calculated
        /\ \A i \in DOMAIN netOut.result.positions :
              netOut.result.positions[i].netPosition =
                 netOut.result.positions[i].totalReceivable
                    - netOut.result.positions[i].totalPayable

-----------------------------------------------------------------------------
(* generateSettlementLegs, one step per iteration of its while loop: the   *)
(* loop's variables are kept in netOut.loop until the function returns,    *)
(* and netOut.iterations counts the times the body has run.                *)

\* the body runs at most this often in a run; more than a loop that moves a
\* pointer every time can need
MaxIterations == MaxPositions + 1

InitLegLoop == NetUnused /\ LedgerIdle

\* lines 139-145: the function is called on a position list
LegCall ==
    /\ netIn.kind = "none"
    /\ \E l \in PositionLists \cup UnbalancedLists :
          /\ netIn' = [kind |-> "positions", positions |-> l]
          /\ netOut' = [done |-> FALSE, loop |-> LegStart(l), iterations |-> 0]
    /\ UNCHANGED <<execVars, recVars, invoices, payments, batches, users, blockchainState,
                   calls, computed, response>>

\* lines 147-180: the loop condition holds and the body runs once
LegIteration ==
    /\ netIn.kind = "positions" /\ ~netOut.done
    /\ netOut.iterations < MaxIterations
    /\ LegCond(netOut.loop, Debtors(netIn.positions), Creditors(netIn.positions))
    /\ netOut' = [done |-> FALSE,
                  loop |-> LegBody(netOut.loop, Debtors(netIn.positions),
                                   Creditors(netIn.positions)),
                  iterations |-> netOut.iterations + 1]
    /\ UNCHANGED <<execVars, recVars, netIn, invoices, payments, batches, users, blockchainState,
                   calls, computed, response>>

\* line 182: the loop condition fails and the legs are returned
LegReturn ==
    /\ netIn.kind = "positions" /\ ~netOut.done
    /\ ~LegCond(netOut.loop, Debtors(netIn.positions), Creditors(netIn.positions))
    /\ netOut' = [done |-> TRUE, loop |-> netOut.loop, iterations |-> netOut.iterations,
                  result |-> [calculated |-> netIn.positions,
                              positions |-> netOut.loop.positions,
                              settlementLegs |-> netOut.loop.legs]]
    /\ UNCHANGED <<execVars, recVars, netIn, invoices, payments, batches, users, blockchainState,
                   calls, computed, response>>

NextLegLoop == LegCall \/ LegIteration \/ LegReturn

SpecLegLoop == InitLegLoop /\ [][NextLegLoop]_vars

\* what one run of the body does to the two pointers
IterationAdvances ==
    (netIn.kind = "positions" /\ ~netOut.done /\ ~netOut'.done) =>
        LET d == Debtors(netIn.positions)[netOut.loop.debtorIndex]
            c == Creditors(netIn.positions)[netOut.loop.creditorIndex]
            dMoved == netOut'.loop.debtorIndex - netOut.loop.debtorIndex
            cMoved == netOut'.loop.creditorIndex - netOut.loop.creditorIndex
        IN  /\ dMoved \in {0, 1} /\ cMoved \in {0, 1}
            /\ dMoved + cMoved >= 1
            /\ dMoved = 1 <=> Abs(netOut'.loop.positions[d].netPosition) < EPS
            /\ cMoved = 1 <=> Abs(netOut'.loop.positions[c].netPosition) < EPS

\* the body has run at most once per debtor and creditor, so the loop is
\* never cut short by MaxIterations and always comes to its return
IterationsBounded ==
    (netIn'.kind = "positions") =>
        netOut'.iterations <= NumDebtors(netIn'.positions) + NumCreditors(netIn'.positions)

\* the function returns only when a pointer has run off its list
ReturnsWhenExhausted ==
    (netIn.kind = "positions" /\ ~netOut.done /\ netOut'.done) =>
        \/ netOut.loop.debtorIndex > NumDebtors(netIn.positions)
        \/ netOut.loop.creditorIndex > NumCreditors(netIn.positions)

\* C27: generateSettlementLegs terminates for every list of net positions:
\* each iteration of the loop advances the debtor pointer or the creditor
\* pointer (a pointer advances when the remaining position is within EPS of
\* zero), so the body runs at most once per debtor and creditor, and the
\* loop ends when either pointer has exhausted its list.
C27_LegLoopTerminates ==
    [][IterationAdvances /\ IterationsBounded /\ ReturnsWhenExhausted]_vars

\* C27 witness: the loop has returned after two iterations with the
\* creditors exhausted and a debtor left over.
C27_Witness ==
    /\ NetDone /\ "loop" \in DOMAIN netOut
    /\ Len(netOut.result.settlementLegs) = 2
    /\ netOut.loop.creditorIndex > NumCreditors(netIn.positions)
    /\ netOut.loop.debtorIndex <= NumDebtors(netIn.positions)

-----------------------------------------------------------------------------
(* Properties of the netting compute request                               *)

NextCompute ==
    \/ \E period \in Periods : NettingPOST(period)
    \/ \E i \in DOMAIN invoices, amount \in 1..MaxPaid : importPayments(i, amount)

\* compute requests and payment imports only
SpecCompute == Init /\ [][NextCompute]_vars

\* a step of the netting POST: a batch row appears or a new netting response
NettingStep ==
    \/ Len(batches') # Len(batches)
    \/ (response'.op = "netting" /\ response' # response)

\* the POST's period has no invoice with an outstanding amount
NothingOutstanding(period) ==
    \A k \in DOMAIN PeriodInvoices(period) :
        PeriodInvoices(period)[k].totalAmount
            - SumSeq(Field(PeriodInvoices(period)[k].payments, "amount")) <= 0

\* C24: a netting compute request persists exactly one new batch, with
\* status COMPUTED and totalNetAmount equal to the sum of the amounts of the
\* legs it generated; with no outstanding invoice it answers without error
\* with an empty position list, no legs and zero savings.
C24_ComputePersistsOneBatch ==
    [][NettingStep =>
         /\ response'.op = "netting" /\ response'.status = 200
         /\ Len(batches') = Len(batches) + 1
         /\ SubSeq(batches', 1, Len(batches)) = batches
         /\ batches'[Len(batches')].status = "COMPUTED"
         /\ batches'[Len(batches')].period = response'.result.period
         /\ batches'[Len(batches')].totalNetAmount = SumLegs(response'.result.settlementLegs)
         /\ NothingOutstanding(response'.result.period) =>
               /\ response'.result.positions = <<>>
               /\ response'.result.settlementLegs = <<>>
               /\ response'.result.summary.cashLegsReduction = 0
               /\ response'.result.summary.efficiencyGain = 0
               /\ batches'[Len(batches')].totalNetAmount = 0]_vars

\* C24 witness: two compute requests were answered, the first with nothing
\* outstanding for its period, the second with a leg over what a completed
\* payment left of an invoice.
C24_Witness ==
    /\ Len(batches) = 2
    /\ batches[1].totalNetAmount = 0
    /\ payments # <<>>
    /\ response.op = "netting"
    /\ Len(response.result.settlementLegs) = 1
    /\ batches[2].totalNetAmount = response.result.settlementLegs[1].amount

-----------------------------------------------------------------------------
(* Delivery selection of performReconciliation                             *)

HasRule(type) == \E r \in DOMAIN recIn.rules : recIn.rules[r].type = type

FirstRule(type) ==
    recIn.rules[CHOOSE r \in DOMAIN recIn.rules :
                    /\ recIn.rules[r].type = type
                    /\ \A q \in 1..(r - 1) : recIn.rules[q].type # type]

\* the window in days and the band in percent that the request asks for
StatedWindow == IF HasRule("TIME_WINDOW") THEN FirstRule("TIME_WINDOW").value ELSE 7

StatedBand == IF HasRule("TOLERANCE_BAND") THEN FirstRule("TOLERANCE_BAND").value ELSE 5

\* deliveries of the i-th invoice's contract in [periodStart - window, periodEnd + window]
InClosedWindow(i) ==
    {k \in DOMAIN recIn.deliveries :
        /\ recIn.deliveries[k].contractId = recIn.invoices[i].contractId
        /\ recIn.invoices[i].periodStart - StatedWindow * DayMs <= recIn.deliveries[k].timestamp
        /\ recIn.deliveries[k].timestamp <= recIn.invoices[i].periodEnd + StatedWindow * DayMs}

QuantityIn(i) == SumOver([k \in DOMAIN recIn.deliveries |-> recIn.deliveries[k].quantity],
                         InClosedWindow(i))

WithinBand(i, p) ==
    IF ExpectedFor(i) > 0
    THEN Abs(QuantityIn(i) - ExpectedFor(i)) * 100 <= p * ExpectedFor(i)
    ELSE 100 <= p

\* C28: a delivery is selected for an invoice if and only if it is of the
\* invoice's contract and its timestamp is in the closed interval
\* [periodStart - window, periodEnd + window]; without a TIME_WINDOW rule the
\* window is 7 days and without a TOLERANCE_BAND rule the band is 5 percent.
\* The selection shows in the result: a matched invoice lists exactly those
\* deliveries, NO_MATCHING_DELIVERIES is raised exactly when there is none,
\* and the variance that decides between match and exception is theirs.
C28_DeliverySelection ==
    RecRan =>
        \A i \in DOMAIN recIn.invoices :
            /\ \A m \in RecMatched(i) :
                  /\ { recOut[1].matched[m].deliveryIds[n] :
                          n \in DOMAIN recOut[1].matched[m].deliveryIds }
                        = { recIn.deliveries[k].deliveryId : k \in InClosedWindow(i) }
                  /\ Len(recOut[1].matched[m].deliveryIds) = Cardinality(InClosedWindow(i))
            /\ InClosedWindow(i) = {} <=>
                  \E e \in RecExceptions(i) :
                      recOut[1].exceptions[e].reason = "NO_MATCHING_DELIVERIES"
            /\ InClosedWindow(i) # {} =>
                  (RecMatched(i) # {} <=> WithinBand(i, StatedBand))

\* C28 witness: under a window of 8 days an invoice for the days 10..12 is
\* matched with a delivery of day 2 and one of day 20, the two ends of the
\* interval.
C28_Witness ==
    /\ RecRan
    /\ StatedWindow = 8
    /\ \E i \in DOMAIN recIn.invoices, m \in DOMAIN recOut[1].matched :
          /\ recOut[1].matched[m].invoiceId = recIn.invoices[i].invoiceId
          /\ \E a, b \in InClosedWindow(i) :
                /\ recIn.deliveries[a].timestamp = recIn.invoices[i].periodStart - 8
                /\ recIn.deliveries[b].timestamp = recIn.invoices[i].periodEnd + 8
          /\ Len(recOut[1].matched[m].deliveryIds) = 2

-----------------------------------------------------------------------------
(* Disputes that reconciliation creates                                    *)

\* the disputes on ledger row i that updateInvoiceStatuses created: its rows
\* are written without a status column
AutoDisputesOn(i) == {n \in DisputesOn(i) : "status" \notin DOMAIN disputes[n]}

\* C30: over any sequence of reconciliation runs at most one dispute is
\* created automatically for an invoice.
C30_OneAutoDisputePerInvoice ==
    \A i \in DOMAIN invoices : Cardinality(AutoDisputesOn(i)) <= 1

-----------------------------------------------------------------------------
(* Requests that overlap: a reconciliation POST may arrive while an earlier *)
(* one is between two of its database calls, and so may a RAISE_DISPUTE    *)
(* request (unnamed/part_004).                                             *)

MaxRaised == 1        \* RAISE_DISPUTE requests in a run

\* unnamed/part_004, lines 635-644: validateDisputeData; a field the body
\* does not carry is undefined
validateDisputeData(disputeData) ==
    [valid |-> {"disputeId", "reasonCode", "description", "receivedById"}
                  \subseteq DOMAIN disputeData]

\* the disputes that raiseDispute has created
Raised == {n \in DOMAIN disputes : "status" \in DOMAIN disputes[n]}

\* request bodies of RAISE_DISPUTE: a dispute on a ledger row, raised by its
\* counterparty, complete or without its reason code
DisputeInputs ==
    { [disputeId |-> <<"DSP", i>>, invoiceId |-> invoices[i].id,
       contractId |-> invoices[i].contractId, receivedById |-> invoices[i].issuerId,
       reasonCode |-> "PRICE_DISPUTE",
       description |-> [text |-> "raised by the counterparty"]] : i \in DOMAIN invoices }
    \cup
    { [disputeId |-> <<"DSP", i>>, invoiceId |-> invoices[i].id,
       contractId |-> invoices[i].contractId, receivedById |-> invoices[i].issuerId,
       description |-> [text |-> "raised by the counterparty"]] : i \in DOMAIN invoices }

\* unnamed/part_004, lines 477-529: dispute.create, invoice.updateMany by row
\* id, auditLog.create.  No reconciliation step reads disputes or auditLog,
\* so the three writes are taken as one step.
raiseDispute(agencyId, disputeData) ==
    /\ Cardinality(Raised) < MaxRaised
    /\ IF ~validateDisputeData(disputeData).valid
       THEN /\ response' = [op |-> "raiseDispute", status |-> 400, error |-> "Validation failed"]
            /\ UNCHANGED <<invoices, disputes, auditLog>>
       ELSE /\ disputes' = Append(disputes,
                   [disputeId |-> disputeData.disputeId,
                    invoiceId |-> disputeData.invoiceId,
                    contractId |-> disputeData.contractId,
                    raisedById |-> agencyId,
                    receivedById |-> disputeData.receivedById,
                    reasonCode |-> disputeData.reasonCode,
                    description |-> disputeData.description,
                    status |-> "OPEN",
                    slaDeadline |-> 7 * DayMs,
                    evidenceHash |-> Null])
            /\ invoices' = [i \in DOMAIN invoices |->
                              IF invoices[i].id = disputeData.invoiceId
                              THEN WithData(invoices[i], [status |-> "DISPUTED"])
                              ELSE invoices[i]]
            /\ auditLog' = Append(auditLog, [action |-> "RAISE_DISPUTE",
                                             entityType |-> "dispute",
                                             entityId |-> disputeData.disputeId])
            /\ response' = [op |-> "raiseDispute", status |-> 200, success |-> TRUE]
    /\ UNCHANGED <<execVars, netVars, recIn, recOut, deliveries, recRuns, payments, batches, users,
                   blockchainState, calls, computed>>

NextInterleaved ==
    \/ \E req \in RecRequests : ReconciliationRead(req)
    \/ \E r \in DOMAIN recRuns : updateMatched(r)
    \/ \E r \in DOMAIN recRuns : updateException(r)
    \/ \E r \in DOMAIN recRuns : findInvoice(r)
    \/ \E r \in DOMAIN recRuns : createDispute(r)
    \/ \E r \in DOMAIN recRuns : respond(r)
    \/ \E disputeData \in DisputeInputs : raiseDispute("B", disputeData)

SpecInterleaved == InitReconcile /\ [][NextInterleaved]_vars

\* request r makes its status write in this step; Target is the invoiceId it writes
Writes(r) ==
    /\ r \in DOMAIN recRuns
    /\ recRuns[r].pc \in {"matched", "exceptions"}
    /\ recRuns'[r] # recRuns[r]

Target(r) ==
    IF recRuns[r].pc = "matched"
    THEN recRuns[r].result.matched[recRuns[r].k].invoiceId
    ELSE recRuns[r].result.exceptions[recRuns[r].k].invoiceId

\* the row of this invoiceId as request r read it
ReadBy(r, invoiceId) ==
    recRuns[r].invoices[CHOOSE n \in DOMAIN recRuns[r].invoices :
                            recRuns[r].invoices[n].invoiceId = invoiceId]

\* status, score and delivery list of a row are those of one request's write
FromOneRun(i) ==
    /\ invoices[i].status = "PARTIALLY_MATCHED" =>
          /\ invoices[i].confidenceScore = Null
          /\ invoices[i].matchedDeliveries = Null
    /\ invoices[i].status = "MATCHED" =>
          \E r \in DOMAIN recRuns : \E j \in DOMAIN recRuns[r].result.matched :
              /\ recRuns[r].result.matched[j].invoiceId = invoices[i].invoiceId
              /\ MatchedData(recRuns[r].result.matched[j])
                    = [status |-> invoices[i].status,
                       confidenceScore |-> invoices[i].confidenceScore,
                       matchedDeliveries |-> invoices[i].matchedDeliveries]

\* a row that is not as request r read it and has a status that only
\* reconciliation writes: another run has written it since r's read
WrittenSinceRead(r, i) ==
    /\ invoices[i] # ReadBy(r, invoices[i].invoiceId)
    /\ invoices[i].status \in {"MATCHED", "PARTIALLY_MATCHED"}

\* C22: when reconciliation runs over the same invoices overlap, the status,
\* confidence score and matched-delivery list of an invoice all come from one
\* run, and a run never overwrites an invoice state that another run wrote
\* after the first run read the invoice.
C22_WritesSerialized ==
    /\ [](\A i \in DOMAIN invoices : FromOneRun(i))
    /\ [][\A r \in DOMAIN recRuns :
             Writes(r) => \A i \in RowsOf(Target(r)) : ~WrittenSinceRead(r, i)]_vars

\* C25: a reconciliation run changes only invoices that are PENDING or
\* PARTIALLY_MATCHED at the moment of the write: an invoice that is MATCHED,
\* DISPUTED, PAID or PARTIALLY_PAID is never set to MATCHED or
\* PARTIALLY_MATCHED by a run, also when a dispute was raised on it between
\* the run's read and its write.
C25_WritesOnlyOpenInvoices ==
    [][\A r \in DOMAIN recRuns :
          Writes(r) => \A i \in RowsOf(Target(r)) :
                          invoices[i].status \in {"PENDING", "PARTIALLY_MATCHED"}]_vars

-----------------------------------------------------------------------------
(* treasury/route.ts: executeSettlement, one step per awaited call, with   *)
(* the clock running between the calls.  execRuns holds, for each execute  *)
(* request, the step it has reached and its local values.                  *)

MaxExec == 1          \* execute requests in a run
MaxClock == 3         \* the clock stops here

\* reservePeriod: 24 * 60 * 60 * 1000 ms; the clock counts in units of 12 hours
ReservePeriod == 2

\* time passes
Tick ==
    /\ now < MaxClock
    /\ now' = now + 1
    /\ UNCHANGED <<execRuns, netVars, recVars, invoices, payments, batches, users,
                   blockchainState, calls, computed, response>>

execUnchanged == UNCHANGED <<now, netVars, recVars, invoices, payments, users,
                             blockchainState, computed>>

\* lines 324-338: findUnique, the status check, and the two helpers that
\* return the legs
ExecutePOST(batchId) ==
    /\ Len(execRuns) < MaxExec
    /\ LET b == FindBatch(batchId)
       IN  IF b = 0 \/ batches[b].status # "APPROVED"
           THEN /\ response' = [op |-> "execute", status |-> 400, batchId |-> batchId,
                                error |-> "Settlement not approved"]
                /\ execRuns' = Append(execRuns, [batchId |-> batchId, pc |-> "done"])
           ELSE /\ execRuns' = Append(execRuns,
                       [batchId |-> batchId, pc |-> "reserve",
                        settlementLegs |-> treasuryGenerateSettlementLegs(
                                               calculateNetPositions(batches[b].period))])
                /\ UNCHANGED response
    /\ UNCHANGED <<batches, calls>>
    /\ execUnchanged

\* lines 341-359: reserveFunds, then the loop over the legs
execReserve(r) ==
    /\ execRuns[r].pc = "reserve"
    /\ LET settlementLegs == execRuns[r].settlementLegs
           totalAmount == SumSeq(Field(settlementLegs, "amount"))
           reserveData == [amount |-> totalAmount, currency |-> "GHS",
                           reference |-> Reference(execRuns[r].batchId),
                           reservePeriod |-> ReservePeriod]
           executionResults == [k \in DOMAIN settlementLegs |->
                                   executeSettlementLeg(settlementLegs[k], execRuns[r].batchId)]
       IN  IF ~reserveFunds(reserveData).success
           THEN /\ calls' = [calls EXCEPT !.reserveFunds = Append(@, reserveData)]
                /\ response' = [op |-> "execute", status |-> 400,
                                batchId |-> execRuns[r].batchId,
                                error |-> "Insufficient escrow funds"]
                /\ execRuns' = [execRuns EXCEPT ![r].pc = "done"]
           ELSE /\ calls' = [calls EXCEPT
                       !.reserveFunds = Append(@, reserveData),
                       !.executeSettlementLeg = @ \o
                           [k \in DOMAIN settlementLegs |->
                               [batchId |-> execRuns[r].batchId, leg |-> settlementLegs[k]]]]
                /\ execRuns' = [execRuns EXCEPT ![r] =
                       [batchId |-> @.batchId, pc |-> "update",
                        settlementLegs |-> settlementLegs,
                        totalAmount |-> totalAmount,
                        reservedAt |-> now,
                        executionResults |-> executionResults]]
                /\ UNCHANGED response
    /\ UNCHANGED batches
    /\ execUnchanged

\* lines 362-385: the status write when every leg succeeded, rollbackSettlement otherwise
execUpdate(r) ==
    /\ execRuns[r].pc = "update"
    /\ IF \A k \in DOMAIN execRuns[r].executionResults : execRuns[r].executionResults[k].success
       THEN /\ batches' = [i \in DOMAIN batches |->
                  IF batches[i].batchId = execRuns[r].batchId
                  THEN [batches[i] EXCEPT !.status = "EXECUTED", !.executedAt = TRUE]
                  ELSE batches[i]]
            /\ execRuns' = [execRuns EXCEPT ![r].pc = "record"]
            /\ UNCHANGED calls
       ELSE /\ calls' = [calls EXCEPT !.rollbackSettlement =
                            Append(@, execRuns[r].executionResults)]
            /\ execRuns' = [execRuns EXCEPT ![r].pc = "respond"]
            /\ UNCHANGED batches
    /\ UNCHANGED response
    /\ execUnchanged

\* line 375: triggerBlockchainExecution, whose body is empty
execRecord(r) ==
    /\ execRuns[r].pc = "record"
    /\ execRuns' = [execRuns EXCEPT ![r].pc = "release"]
    /\ UNCHANGED <<batches, calls, response>>
    /\ execUnchanged

\* lines 378-381: releaseFunds
execRelease(r) ==
    /\ execRuns[r].pc = "release"
    /\ calls' = [calls EXCEPT !.releaseFunds =
                    Append(@, [reference |-> Reference(execRuns[r].batchId),
                               amount |-> execRuns[r].totalAmount])]
    /\ execRuns' = [execRuns EXCEPT ![r].pc = "respond"]
    /\ UNCHANGED <<batches, response>>
    /\ execUnchanged

\* lines 387-394: the response
execRespond(r) ==
    /\ execRuns[r].pc = "respond"
    /\ LET results == execRuns[r].executionResults
       IN  response' = [op |-> "execute", status |-> 200,
                        batchId |-> execRuns[r].batchId,
                        success |-> \A k \in DOMAIN results : results[k].success,
                        executionResults |-> results,
                        totalAmount |-> execRuns[r].totalAmount,
                        legsExecuted |-> Len(SelectSeq(results, LAMBDA x : x.success)),
                        totalLegs |-> Len(execRuns[r].settlementLegs)]
    /\ execRuns' = [execRuns EXCEPT ![r].pc = "done"]
    /\ UNCHANGED <<batches, calls>>
    /\ execUnchanged

\* the steps of the execute requests under way
ExecuteSteps ==
    \E r \in DOMAIN execRuns :
        execReserve(r) \/ execUpdate(r) \/ execRecord(r) \/ execRelease(r) \/ execRespond(r)

NextExecute ==
    \/ \E period \in Periods : NettingPOST(period)
    \/ \E batchId \in BatchIds, in \in ApprovalInputs, simulated \in BOOLEAN :
          blockchainApproveSettlement(batchId, in.approvers, in.approvals, simulated)
    \/ \E batchId \in BatchIds : ExecutePOST(batchId)
    \/ \E r \in DOMAIN execRuns : execReserve(r)
    \/ \E r \in DOMAIN execRuns : execUpdate(r)
    \/ \E r \in DOMAIN execRuns : execRecord(r)
    \/ \E r \in DOMAIN execRuns : execRelease(r)
    \/ \E r \in DOMAIN execRuns : execRespond(r)
    \/ Tick

\* a request that has been accepted runs on to its response; nothing makes
\* the clock run or a request arrive
SpecExecute == Init /\ [][NextExecute]_vars /\ WF_vars(ExecuteSteps)

\* request r holds a reservation and has not answered yet
Executing(r) ==
    /\ r \in DOMAIN execRuns
    /\ execRuns[r].pc \in {"update", "record", "release", "respond"}

\* the reservation of request r has run out
ReservationExpired(r) == now >= execRuns[r].reservedAt + ReservePeriod

\* the batch of request r is FAILED and rollbackSettlement was called
TreatedAsFailed(r) ==
    /\ r \in DOMAIN execRuns
    /\ FindBatch(execRuns[r].batchId) # 0
    /\ StatusOf(execRuns[r].batchId) = "FAILED"
    /\ calls.rollbackSettlement # <<>>

\* C23: an execution that is still under way when its 24-hour reservation
\* runs out is in the end treated as failed: rollbackSettlement runs and the
\* batch ends in FAILED, with no cancellation request.
C23_ExpiredExecutionFails ==
    \A r \in 1..MaxExec :
        (Executing(r) /\ ReservationExpired(r)) ~> TreatedAsFailed(r)

====
